---- MODULE Spec2Model ----
(***************************************************************************)
(* Juggler front end: the conversation and variant branching logic of      *)
(* frontend/src/ChatView.vue (the view routed at "/") and of the Pinia     *)
(* store frontend/src/stores/chatStore.ts.                                 *)
(*                                                                         *)
(* The two components share no state.  `mounted` says which of them the    *)
(* behaviour exercises; the other one stays in its constructed state.      *)
(* Every asynchronous handler is split at its awaits: the call step does   *)
(* what the handler does before the await, one return step per outcome of  *)
(* the awaited request does the rest.  Requests in flight are records in   *)
(* `reqs` (view) and `sreqs` (store).                                      *)
(*                                                                         *)
(* The FastAPI back end is not part of the sources.  Its answers to        *)
(* /api/chat/send, /api/chat/rerun and /api/chat/variants/select are       *)
(* modelled from the specification (the Server* definitions).              *)
(***************************************************************************)
EXTENDS Integers, Sequences, FiniteSets, TLC

VARIABLES
    mounted,          \* "ChatView" | "ChatStore" | "RateLimiter" | "AuthService" | "App":
                      \* the component under exercise
    \* ---- ChatView.vue refs ----
    messages,         \* ref<Message[]>
    variants,         \* ref<Variant[]>
    isLoading,        \* ref(false)
    conversationId,   \* ref<string | null>
    providers,        \* ref<Record<string, {available, models}>>
    selectedProvider, \* ref('')
    availableModels,  \* ref<string[]>
    selectedModel,    \* ref('')
    rerunModal,       \* ref({show, messageId, provider, models})
    lastUsed,         \* localStorage['juggler_last_used_models']
    fetchPending,     \* onMounted's fetchEnabledModels has not returned yet
    reqs,             \* requests of the view awaiting the back end
    \* ---- back end (modelled from the specification) ----
    srvMsgCount,      \* number of assistant messages the back end stored
    srvVarCount,      \* number of variants the back end generated
    srvInactive,      \* ids of the messages the back end deactivated
    srvPool,          \* the back end's variant pool
    now,              \* Date.now(), the source of the view's own ids
    nOps,             \* calls made so far that issue a request or rewrite messages
    \* ---- chatStore.ts refs ----
    sessions,         \* ref<ChatSession[]>
    currentSessionId, \* ref<string | null>
    sProviders,       \* providers: ref<ProvidersStatus | null>
    sIsLoading,       \* isLoading
    sError,           \* error
    currentProvider,  \* ref('ollama')
    currentModel,     \* ref('llama3:8b')
    isInitialized,    \* ref(false)
    sreqs,            \* requests of the store awaiting the back end
    chatData,         \* localStorage under 'juggler_chat_data'
    \* ---- api-security.service.ts ----
    rateLimiters,     \* Map<string, number[]>: the stored timestamps per endpoint
    accepted,         \* per endpoint, the times of all calls checkRateLimit accepted
    rateResult,       \* the last call of checkRateLimit and the value it returned
    \* ---- auth.service.ts ----
    localStorage,     \* the items under the three keys of AuthService
    refreshTokenTimeout, \* the time the pending refresh timer fires at
    areqs,            \* requests of AuthService awaiting the back end
    location,         \* window.location.href
    authResult,       \* the last call of AuthService that returned
    \* ---- stores/auth.ts, utils/axios.ts, router/index.ts ----
    authUser,         \* user: ref<User | null>
    authToken,        \* token: ref<string | null>
    authRefreshToken, \* refreshToken: ref<string | null>
    appStorage,       \* localStorage under 'access_token' and 'refresh_token'
    axiosDefaults,    \* axios.defaults.headers.common['Authorization']
    route,            \* the last navigation: the path asked for and the path reached
    preqs,            \* requests of the auth store and the api client awaiting the back end
    apiResult         \* the last call through the api client that settled

viewVars == <<messages, variants, isLoading, conversationId, providers,
              selectedProvider, availableModels, selectedModel, rerunModal,
              lastUsed, fetchPending, reqs>>
srvVars == <<srvMsgCount, srvVarCount, srvInactive, srvPool>>
storeVars == <<sessions, currentSessionId, sProviders, sIsLoading, sError,
               currentProvider, currentModel, isInitialized, sreqs, chatData>>
counters == <<now, nOps>>
rateVars == <<rateLimiters, accepted, rateResult>>
authVars == <<localStorage, refreshTokenTimeout, areqs, location, authResult>>
serviceVars == <<rateVars, authVars>>
appVars == <<authUser, authToken, authRefreshToken, appStorage, axiosDefaults,
             route, preqs, apiResult>>
vars == <<mounted, viewVars, srvVars, counters, storeVars, serviceVars,
          appVars>>

----------------------------------------------------------------------------
(* Bounds of the model *)

\* The number of calls of a behaviour that issue a request (sendMessage,
\* rerunMessage, initialize, regenerateLastResponse) or rewrite the messages of
\* a session (clearCurrentSession, editMessage, deleteMessage).
MaxOps == 3

\* The number of times one request is sent, and the number of requests of
\* AuthService and JugglerAPI awaiting the back end or a refresh at a time.
MaxSends == 3
MaxRequests == 2

\* The number of checkRateLimit calls of a behaviour.
MaxCalls == 3

\* The last value of Date.now() in the behaviours of the services whose
\* results depend on the time.
MaxTime == 4

----------------------------------------------------------------------------
(* Values *)

\* Ids are positive numbers; NoId stands for null, '' and undefined ids.
NoId == 0
Undefined == "undefined"

\* The texts a user types: sequences of characters.
Texts == { <<>>, <<" ">>, <<" ", "h">> }

RECURSIVE TrimLeft(_)
TrimLeft(s) ==
    IF s # <<>> /\ Head(s) = " " THEN TrimLeft(Tail(s)) ELSE s

RECURSIVE TrimRight(_)
TrimRight(s) ==
    IF s # <<>> /\ s[Len(s)] = " " THEN TrimRight(SubSeq(s, 1, Len(s) - 1)) ELSE s

\* String.prototype.trim
Trim(s) == TrimRight(TrimLeft(s))

\* The answer of GET /api/config/models/enabled: provider keys in the order of
\* the response object, each with its model list.
ProviderKeys == <<"pX", "pY", "pZ">>
EnabledModels == [pX |-> <<"x1", "x2">>, pY |-> <<"y1">>, pZ |-> <<>>]

Range(s) == { s[i] : i \in DOMAIN s }

\* Array.prototype.filter
Filter(s, Test(_)) == SelectSeq(s, Test)

\* Array.prototype.slice(0, n)
SliceTo(s, n) == SubSeq(s, 1, IF Len(s) < n THEN Len(s) ELSE n)

\* Array.prototype.findIndex, 1-based; 0 when no element passes the test.
FindIndex(s, Test(_)) ==
    LET hits == { i \in DOMAIN s : Test(s[i]) }
    IN  IF hits = {} THEN 0 ELSE CHOOSE i \in hits : \A j \in hits : i <= j

ReplyContent(n) == <<"reply", ToString(n)>>
ErrorContent == <<"[ERROR]", "Failed">>

Msg(id, role, content, provider, model) ==
    [id |-> id, role |-> role, content |-> content, provider |-> provider,
     model |-> model, is_active |-> TRUE]

\* What messages.find(...) yields when no message matches.
NoMessage == [id |-> NoId, role |-> Undefined, content |-> <<>>,
              provider |-> Undefined, model |-> Undefined, is_active |-> TRUE]

\* A request in flight: what the handler's closure holds while it awaits.
\* rid tells apart the requests in flight: the least number none of them has.
Req(inFlight, kind) ==
    [rid |-> CHOOSE n \in 1 .. Cardinality(inFlight) + 1 :
                /\ \A q \in inFlight : q.rid # n
                /\ \A k \in 1 .. n - 1 : \E q \in inFlight : q.rid = k,
     kind |-> kind, pc |-> "post", text |-> <<>>,
     provider |-> "", model |-> "", conv |-> NoId, mid |-> NoId,
     vid |-> NoId, content |-> <<>>, lenBefore |-> 0]

----------------------------------------------------------------------------
(* ChatView.vue: derived values *)

\* filteredProviders: the provider keys that are available and have models,
\* in key order.
filteredProviders ==
    Filter(ProviderKeys,
           LAMBDA k : k \in DOMAIN providers /\ providers[k].available
                      /\ Len(providers[k].models) > 0)

\* getVariants(messageId)
getVariants(messageId) ==
    Filter(variants, LAMBDA v : v.original_message_id = messageId)

\* messages.value.find(m => m.id === id)
FindMessage(id) ==
    LET i == FindIndex(messages, LAMBDA m : m.id = id)
    IN  IF i = 0 THEN NoMessage ELSE messages[i]

\* providers.value[provider]?.models || []
ModelsOf(provider) ==
    IF provider \in DOMAIN providers THEN providers[provider].models ELSE <<>>

\* getRerunProviders()
getRerunProviders ==
    LET msg == FindMessage(rerunModal.messageId)
    IN  Filter(filteredProviders,
               LAMBDA p : IF p = msg.provider
                          THEN Len(ModelsOf(p)) > 1 ELSE TRUE)

\* updateRerunModels(message): the new value of rerunModal for its provider.
updateRerunModels(modal, message) ==
    LET models == Filter(ModelsOf(modal.provider),
                         LAMBDA model : ~(message.id # NoId
                                          /\ message.provider = modal.provider
                                          /\ message.model = model))
    IN  [modal EXCEPT !.models = models,
                      !.model = IF models = <<>> THEN "" ELSE models[1]]

\* The variants the template offers a Select button for under a message.
OfferedVariants(message) ==
    SliceTo(Filter(getVariants(message.id),
                   LAMBDA v : ~(v.provider = message.provider
                                /\ v.model = message.model)), 2)

\* The messages with is_active !== false, in array order.
ActiveThread == Filter(messages, LAMBDA m : m.is_active # FALSE)

\* While the rerun menu is shown its backdrop covers the viewport and takes
\* every click, so the controls under it are out of reach.
MenuClosed == ~rerunModal.show

\* onProviderChange() followed by loadLastUsedModel(), for the provider key p:
\* the new <<availableModels, selectedModel>>.
onProviderChange(p, provs) ==
    IF p \in DOMAIN provs /\ provs[p].available
    THEN LET models == provs[p].models
             first == IF models = <<>> THEN "" ELSE models[1]
         IN  IF lastUsed[p] # "" /\ lastUsed[p] \in Range(models)
             THEN <<models, lastUsed[p]>>
             ELSE <<models, first>>
    ELSE <<availableModels, selectedModel>>

----------------------------------------------------------------------------
(* Initial state: both components as constructed *)

\* The rerun menu while it is hidden.  showRerunModal overwrites messageId,
\* provider, model and models before anything reads them, so the hidden menu
\* is kept in one state.
HiddenModal == [show |-> FALSE, messageId |-> NoId, provider |-> "",
                model |-> "", models |-> <<>>]

InitView ==
    /\ messages = <<>>
    /\ variants = <<>>
    /\ isLoading = FALSE
    /\ conversationId = NoId
    /\ providers = <<>>
    /\ selectedProvider = ""
    /\ availableModels = <<>>
    /\ selectedModel = ""
    /\ rerunModal = HiddenModal
    /\ lastUsed = [k \in Range(ProviderKeys) |-> ""]
    /\ fetchPending = TRUE
    /\ reqs = {}

InitServer ==
    /\ srvMsgCount = 0
    /\ srvVarCount = 0
    /\ srvInactive = {}
    /\ srvPool = {}

\* What localStorage holds under 'juggler_chat_data': nothing, or the sessions
\* with the current session, provider and model as the store saved them.
NoData == [sessions |-> <<>>, currentSessionId |-> NoId,
           currentProvider |-> "", currentModel |-> ""]
StoredChatData ==
    {NoData,
     [sessions |-> <<[id |-> 90, messages |-> <<>>, provider |-> "groq",
                      model |-> "q1"]>>,
      currentSessionId |-> 90, currentProvider |-> "groq",
      currentModel |-> "q1"]}

InitStore ==
    /\ sessions = <<>>
    /\ currentSessionId = NoId
    /\ sProviders = <<>>
    /\ sIsLoading = FALSE
    /\ sError = "null"
    /\ currentProvider = "ollama"
    /\ currentModel = "llama3:8b"
    /\ isInitialized = FALSE
    /\ sreqs = {}
    /\ chatData \in IF mounted = "ChatStore" THEN StoredChatData ELSE {NoData}

\* api-security.service.ts: rateLimiters = new Map(); nothing was accepted
\* and nothing returned yet.
RateEndpoints == {"/api/chat/send", "/api/test"}
NoResult == [endpoint |-> "", limit |-> 0, window |-> 0, at |-> 0, result |-> FALSE]

InitRate ==
    /\ rateLimiters = <<>>
    /\ accepted = [e \in RateEndpoints |-> <<>>]
    /\ rateResult = NoResult

\* auth.service.ts: the keys of AuthService in localStorage and the items
\* under them.  An item is null (NoItem), a token that decodes to a claim set
\* with expiry exp (Jwt), a string that does not decode (Garbage), the opaque
\* refresh token, or the stored user.  Times are counted in minutes: Date.now()
\* is `now` minutes, and so is exp.
TOKEN_KEY == "juggler_access_token"
REFRESH_TOKEN_KEY == "juggler_refresh_token"
USER_KEY == "juggler_user"
AuthKeys == {TOKEN_KEY, REFRESH_TOKEN_KEY, USER_KEY}

NoItem == [kind |-> "null", exp |-> 0]
Jwt(exp) == [kind |-> "jwt", exp |-> exp]
Garbage == [kind |-> "garbage", exp |-> 0]
RefreshItem == [kind |-> "refresh", exp |-> 0]
UserItem(exp) == [kind |-> "user", exp |-> exp]

\* The pending refresh timer: the time at which it fires, NoTimer when none
\* is pending.
NoTimer == 0

\* clearTokens() that removes the two tokens and leaves the stored user.
clearTokens_KeepsUser(storage) ==
    [storage EXCEPT ![TOKEN_KEY] = NoItem, ![REFRESH_TOKEN_KEY] = NoItem]

\* clearTokens(): the storage after it.
clearTokens(storage) ==
    [k \in AuthKeys |-> NoItem]

\* setTokens(response): the storage after it.
setTokens(storage, response) ==
    [storage EXCEPT ![TOKEN_KEY] = response.access_token,
                    ![REFRESH_TOKEN_KEY] = response.refresh_token,
                    ![USER_KEY] = UserItem(response.access_token.exp)]

\* setupTokenRefresh() on the storage, at the time t: <<storage, timer>>
\* after it.  The pending timer is cleared first; a token that is due for
\* refresh in more than a minute gets a timer one minute before its expiry, a
\* token that does not decode clears the storage.
setupTokenRefresh(storage, t) ==
    LET token == storage[TOKEN_KEY]
    IN  IF token = NoItem THEN <<storage, NoTimer>>
        ELSE IF token.kind # "jwt" THEN <<clearTokens(storage), NoTimer>>
        ELSE IF token.exp - t - 1 > 0 THEN <<storage, token.exp - 1>>
        ELSE <<storage, NoTimer>>

\* What localStorage holds when the page is loaded: left by an earlier visit.
StoredTokens == {NoItem, Garbage, Jwt(2), Jwt(4)}
InitialStorages ==
    { [k \in AuthKeys |->
          IF k = TOKEN_KEY THEN token
          ELSE IF k = REFRESH_TOKEN_KEY THEN refresh ELSE user] :
        token \in StoredTokens, refresh \in {NoItem, RefreshItem},
        user \in {NoItem, UserItem(2)} }

\* The value of the last call of AuthService that returned, with the storage
\* it found.
NoCall == [call |-> "", before |-> [k \in AuthKeys |-> NoItem], value |-> NoItem]

\* new AuthService(): the constructor runs setupTokenRefresh() on the storage
\* it finds.
InitAuth ==
    /\ \E storage \in IF mounted = "AuthService"
                      THEN InitialStorages
                      ELSE {[k \in AuthKeys |-> NoItem]} :
          /\ localStorage = setupTokenRefresh(storage, 1)[1]
          /\ refreshTokenTimeout = setupTokenRefresh(storage, 1)[2]
    /\ areqs = {}
    /\ location = "/"
    /\ authResult = NoCall

\* stores/auth.ts, utils/axios.ts, router/index.ts: the auth store, the shared
\* api client and the router.  Tokens, users and headers are strings; Null
\* stands for null and for a header that is not set.
Null == "null"
Tokens == {"a", "b"}
StoredRefresh == "r"
User == "u"
Bearer(t) == <<"Bearer", t>>
NoHeader == <<>>
Truthy(v) == v \notin {Null, Undefined, ""}

ACCESS_KEY == "access_token"
REFRESH_KEY == "refresh_token"

NoRoute == [to |-> "", path |-> ""]
\* The last call through the api client that settled: how, with which status,
\* and the token the store held when the response arrived.
Settled(rid, outcome, status, held) ==
    [rid |-> rid, outcome |-> outcome, status |-> status, held |-> held]
NoSettled == Settled(0, "", 0, "")

\* The auth store as constructed: token and refreshToken are read from
\* localStorage, and a stored token becomes the default header of axios.
InitApp ==
    /\ \E access \in IF mounted = "App" THEN {Null, "a"} ELSE {Null},
          refresh \in IF mounted = "App" THEN {Null, StoredRefresh} ELSE {Null} :
          /\ appStorage = [k \in {ACCESS_KEY, REFRESH_KEY} |->
                              IF k = ACCESS_KEY THEN access ELSE refresh]
          /\ authToken = access
          /\ authRefreshToken = refresh
          /\ axiosDefaults = IF Truthy(access) THEN Bearer(access) ELSE NoHeader
    /\ authUser = Null
    /\ route = NoRoute
    /\ preqs = {}
    /\ apiResult = NoSettled

Init ==
    /\ mounted \in {"ChatView", "ChatStore", "RateLimiter", "AuthService",
                    "App"}
    /\ InitView
    /\ InitServer
    /\ InitStore
    /\ InitRate
    /\ InitAuth
    /\ InitApp
    /\ now = 1
    /\ nOps = 0

----------------------------------------------------------------------------
(* ChatView.vue: provider catalogue, provider and model selection *)

\* fetchEnabledModels(), run once from onMounted; ok says whether the GET
\* succeeded.
FetchEnabledModels(ok) ==
    /\ mounted = "ChatView"
    /\ fetchPending
    /\ fetchPending' = FALSE
    /\ IF ok
       THEN LET transformed == [k \in Range(ProviderKeys) |->
                                   [available |-> TRUE, models |-> EnabledModels[k]]]
                filtered == Filter(ProviderKeys,
                                   LAMBDA k : Len(transformed[k].models) > 0)
            IN  /\ providers' = transformed
                /\ IF selectedProvider = "" /\ filtered # <<>>
                   THEN /\ selectedProvider' = filtered[1]
                        /\ availableModels' = onProviderChange(filtered[1], transformed)[1]
                        /\ selectedModel' = onProviderChange(filtered[1], transformed)[2]
                   ELSE UNCHANGED <<selectedProvider, availableModels, selectedModel>>
       ELSE UNCHANGED <<providers, selectedProvider, availableModels, selectedModel>>
    /\ UNCHANGED <<mounted, appVars, serviceVars, messages, variants, isLoading, conversationId,
                   rerunModal, lastUsed, reqs, srvVars, counters, storeVars>>

\* A faulty provider <select>: changing the provider starts a new chat.
ProviderChange_Resets(p) ==
    /\ mounted = "ChatView"
    /\ MenuClosed
    /\ p \in Range(filteredProviders)
    /\ p # selectedProvider
    /\ selectedProvider' = p
    /\ availableModels' = onProviderChange(p, providers)[1]
    /\ selectedModel' = onProviderChange(p, providers)[2]
    /\ messages' = <<>>
    /\ conversationId' = NoId
    /\ UNCHANGED <<mounted, appVars, serviceVars, variants, isLoading, providers, rerunModal, lastUsed,
                   fetchPending, reqs, srvVars, counters, storeVars>>

\* The provider <select>: v-model stores the chosen key, @change runs
\* onProviderChange.
ProviderChange(p) ==
    /\ mounted = "ChatView"
    /\ MenuClosed
    /\ p \in Range(filteredProviders)
    /\ p # selectedProvider
    /\ selectedProvider' = p
    /\ availableModels' = onProviderChange(p, providers)[1]
    /\ selectedModel' = onProviderChange(p, providers)[2]
    /\ UNCHANGED <<mounted, appVars, serviceVars, messages, variants, isLoading, conversationId,
                   providers, rerunModal, lastUsed, fetchPending, reqs, srvVars, counters, storeVars>>

\* The model <select>: v-model stores the chosen model, @change runs
\* saveLastUsedModel.
ModelChange(m) ==
    /\ mounted = "ChatView"
    /\ MenuClosed
    /\ m \in Range(availableModels)
    /\ m # selectedModel
    /\ selectedModel' = m
    /\ lastUsed' = [lastUsed EXCEPT ![selectedProvider] = m]
    /\ UNCHANGED <<mounted, appVars, serviceVars, messages, variants, isLoading, conversationId,
                   providers, selectedProvider, availableModels, rerunModal,
                   fetchPending, reqs, srvVars, counters, storeVars>>

----------------------------------------------------------------------------
(* Back end, as the specification describes it *)

\* The ids the back end assigns: the k-th message, variant and conversation.
\* They are apart from each other and from the view's Date.now() ids.
ServerMessageId(k) == 100 + k
ServerVariantId(k) == 200 + k
ServerConversationId(k) == 300 + k

\* MessageStore: the ids of the assistant messages the back end stored.
srvMsgs == { ServerMessageId(k) : k \in 1 .. srvMsgCount }

\* POST /api/chat/send answered: the conversation (created when the request
\* names none) and the stored assistant message.
ServerSend(r) ==
    LET message_id == ServerMessageId(srvMsgCount + 1)
    IN  [conversation_id |-> IF r.conv = NoId
                             THEN ServerConversationId(srvMsgCount + 1)
                             ELSE r.conv,
         message_id |-> message_id,
         response |-> ReplyContent(message_id)]

\* rerun's precondition: original_message_id references a currently active
\* assistant message.
ServerCanRerun(r) == r.mid \in srvMsgs \ srvInactive

\* POST /api/chat/rerun answered: the variant added to the pool.
ServerRerun(r) ==
    [id |-> ServerVariantId(srvVarCount + 1), original_message_id |-> r.mid,
     content |-> ReplyContent(ServerVariantId(srvVarCount + 1)),
     provider |-> r.provider,
     model |-> r.model, is_canonical |-> FALSE]

\* VariantPool.forMessage
ServerPoolFor(mid) == { v \in srvPool : v.original_message_id = mid }

\* selectVariant's preconditions: the original is still active and the variant
\* is in the pool of that message.
ServerCanSelect(r) ==
    /\ r.mid \in srvMsgs \ srvInactive
    /\ \E v \in ServerPoolFor(r.mid) : v.id = r.vid

\* POST /api/chat/variants/select answered: the message committed from the
\* variant.
ServerSelect(r) ==
    LET v == CHOOSE v \in ServerPoolFor(r.mid) : v.id = r.vid
    IN  [new_message |-> Msg(ServerMessageId(srvMsgCount + 1), "assistant",
                             v.content, v.provider, v.model),
         deactivated_message_id |-> r.mid]

----------------------------------------------------------------------------
(* ChatView.vue: sendMessage *)

\* The form's submit with `text` typed into the input.  The input and the
\* button are disabled while isLoading, the handler returns on blank text or
\* without a selected model.
SendMessage(text) ==
    /\ mounted = "ChatView"
    /\ MenuClosed
    /\ nOps < MaxOps
    /\ ~isLoading
    /\ Trim(text) # <<>>
    /\ selectedModel # ""
    /\ messages' = Append(messages, Msg(now, "user", text, Undefined, Undefined))
    /\ isLoading' = TRUE
    /\ reqs' = reqs \cup
         {[Req(reqs, "send") EXCEPT !.text = text,
                                      !.provider = selectedProvider,
                                      !.model = selectedModel,
                                      !.conv = conversationId,
                                      !.lenBefore = Len(ActiveThread)]}
    /\ now' = now + 1
    /\ nOps' = nOps + 1
    /\ UNCHANGED <<mounted, appVars, serviceVars, variants, conversationId, providers, selectedProvider,
                   availableModels, selectedModel, rerunModal, lastUsed,
                   fetchPending, srvVars, storeVars>>

\* The assistant message sendMessage pushes for a response; provider and model
\* are the selection at the time of the push.
AssistantMessage(message_id, response) ==
    Msg(message_id, "assistant", response, selectedProvider, selectedModel)

\* The POST of r succeeded.  Without a conversation id the handler stores the
\* response's and awaits fetchConversations() before it pushes the reply.
SendPostOk(r) ==
    /\ mounted = "ChatView"
    /\ r \in reqs /\ r.kind = "send" /\ r.pc = "post"
    /\ LET data == ServerSend(r)
       IN  /\ srvMsgCount' = srvMsgCount + 1
           /\ IF conversationId = NoId
              THEN /\ conversationId' = data.conversation_id
                   /\ reqs' = (reqs \ {r}) \cup
                        {[r EXCEPT !.pc = "fetch", !.mid = data.message_id,
                                   !.content = data.response]}
                   /\ UNCHANGED <<messages, isLoading>>
              ELSE /\ messages' = Append(messages,
                                         AssistantMessage(data.message_id, data.response))
                   /\ isLoading' = FALSE
                   /\ reqs' = reqs \ {r}
                   /\ UNCHANGED conversationId
    /\ UNCHANGED <<mounted, appVars, serviceVars, variants, providers, selectedProvider, availableModels,
                   selectedModel, rerunModal, lastUsed, fetchPending,
                   srvVarCount, srvInactive, srvPool, counters, storeVars>>

\* A faulty sendMessage: the reply is pushed and the finally block is skipped.
SendFetchDone_KeepsLoading(r) ==
    /\ mounted = "ChatView"
    /\ r \in reqs /\ r.kind = "send" /\ r.pc = "fetch"
    /\ messages' = Append(messages, AssistantMessage(r.mid, r.content))
    /\ reqs' = reqs \ {r}
    /\ UNCHANGED <<mounted, appVars, serviceVars, variants, isLoading, conversationId, providers,
                   selectedProvider, availableModels, selectedModel, rerunModal,
                   lastUsed, fetchPending, srvVars, counters, storeVars>>

\* fetchConversations() returned (it catches its own errors): the reply is
\* pushed and the finally block runs.
SendFetchDone(r) ==
    /\ mounted = "ChatView"
    /\ r \in reqs /\ r.kind = "send" /\ r.pc = "fetch"
    /\ messages' = Append(messages, AssistantMessage(r.mid, r.content))
    /\ isLoading' = FALSE
    /\ reqs' = reqs \ {r}
    /\ UNCHANGED <<mounted, appVars, serviceVars, variants, conversationId, providers, selectedProvider,
                   availableModels, selectedModel, rerunModal, lastUsed,
                   fetchPending, srvVars, counters, storeVars>>

\* The error turn the catch block pushes.
ErrorTurn(id) == Msg(id, "assistant", ErrorContent, Undefined, Undefined)

\* A faulty sendMessage: the catch block swallows the failure.
SendFail_Swallows(r) ==
    /\ mounted = "ChatView"
    /\ r \in reqs /\ r.kind = "send" /\ r.pc = "post"
    /\ isLoading' = FALSE
    /\ reqs' = reqs \ {r}
    /\ UNCHANGED <<mounted, appVars, serviceVars, messages, variants, conversationId, providers,
                   selectedProvider, availableModels, selectedModel, rerunModal,
                   lastUsed, fetchPending, srvVars, counters, storeVars>>

\* The POST of r failed: catch pushes the error turn, finally clears isLoading.
SendFail(r) ==
    /\ mounted = "ChatView"
    /\ r \in reqs /\ r.kind = "send" /\ r.pc = "post"
    /\ messages' = Append(messages, ErrorTurn(now))
    /\ isLoading' = FALSE
    /\ reqs' = reqs \ {r}
    /\ now' = now + 1
    /\ UNCHANGED <<mounted, appVars, serviceVars, variants, conversationId, providers, selectedProvider,
                   availableModels, selectedModel, rerunModal, lastUsed,
                   fetchPending, srvVars, nOps, storeVars>>

----------------------------------------------------------------------------
(* ChatView.vue: the rerun menu and rerunMessage *)

\* The Rerun button under the assistant message with id mid (disabled while
\* isLoading): showRerunModal.
ShowRerunModal(mid) ==
    /\ mounted = "ChatView"
    /\ MenuClosed
    /\ ~isLoading
    /\ \E i \in DOMAIN messages : messages[i].id = mid /\ messages[i].role # "user"
    /\ rerunModal' = updateRerunModels([rerunModal EXCEPT !.messageId = mid,
                                                         !.provider = selectedProvider,
                                                         !.show = TRUE],
                                       FindMessage(mid))
    /\ UNCHANGED <<mounted, appVars, serviceVars, messages, variants, isLoading, conversationId,
                   providers, selectedProvider, availableModels, selectedModel,
                   lastUsed, fetchPending, reqs, srvVars, counters,
                   storeVars>>

\* A click on a provider of the open rerun menu.
PickRerunProvider(p) ==
    /\ mounted = "ChatView"
    /\ rerunModal.show
    /\ p \in Range(getRerunProviders)
    /\ rerunModal' = updateRerunModels([rerunModal EXCEPT !.provider = p],
                                       FindMessage(rerunModal.messageId))
    /\ UNCHANGED <<mounted, appVars, serviceVars, messages, variants, isLoading, conversationId,
                   providers, selectedProvider, availableModels, selectedModel,
                   lastUsed, fetchPending, reqs, srvVars, counters,
                   storeVars>>

\* A click on the backdrop of the open rerun menu.
CloseRerunModal ==
    /\ mounted = "ChatView"
    /\ rerunModal.show
    /\ rerunModal' = HiddenModal
    /\ UNCHANGED <<mounted, appVars, serviceVars, messages, variants, isLoading, conversationId,
                   providers, selectedProvider, availableModels, selectedModel,
                   lastUsed, fetchPending, reqs, srvVars, counters,
                   storeVars>>

\* A click on a model of the open rerun menu: !isLoading && rerunMessage(model).
RerunMessage(model) ==
    /\ mounted = "ChatView"
    /\ nOps < MaxOps
    /\ rerunModal.show
    /\ model \in Range(rerunModal.models)
    /\ ~isLoading
    /\ rerunModal' = HiddenModal
    /\ isLoading' = TRUE
    /\ reqs' = reqs \cup
         {[Req(reqs, "rerun") EXCEPT !.mid = rerunModal.messageId,
                                       !.provider = rerunModal.provider,
                                       !.model = model]}
    /\ nOps' = nOps + 1
    /\ UNCHANGED <<mounted, appVars, serviceVars, messages, variants, conversationId, providers,
                   selectedProvider, availableModels, selectedModel, lastUsed,
                   fetchPending, srvVars, now, storeVars>>

\* A faulty rerunMessage: the variant is pushed to messages as well.
RerunOk_Pushes(r) ==
    /\ mounted = "ChatView"
    /\ r \in reqs /\ r.kind = "rerun"
    /\ ServerCanRerun(r)
    /\ srvPool' = srvPool \cup {ServerRerun(r)}
    /\ srvVarCount' = srvVarCount + 1
    /\ variants' = Append(variants, ServerRerun(r))
    /\ messages' = Append(messages, Msg(ServerRerun(r).id, "assistant",
                                        ServerRerun(r).content, r.provider, r.model))
    /\ isLoading' = FALSE
    /\ reqs' = reqs \ {r}
    /\ UNCHANGED <<mounted, appVars, serviceVars, conversationId, providers, selectedProvider,
                   availableModels, selectedModel, rerunModal, lastUsed,
                   fetchPending, srvMsgCount, srvInactive, counters, storeVars>>

\* The rerun of r was answered with a variant.
RerunOk(r) ==
    /\ mounted = "ChatView"
    /\ r \in reqs /\ r.kind = "rerun"
    /\ ServerCanRerun(r)
    /\ srvPool' = srvPool \cup {ServerRerun(r)}
    /\ srvVarCount' = srvVarCount + 1
    /\ variants' = Append(variants, ServerRerun(r))
    /\ isLoading' = FALSE
    /\ reqs' = reqs \ {r}
    /\ UNCHANGED <<mounted, appVars, serviceVars, messages, conversationId, providers, selectedProvider,
                   availableModels, selectedModel, rerunModal, lastUsed,
                   fetchPending, srvMsgCount, srvInactive, counters, storeVars>>

\* A faulty rerunMessage: a failed rerun records a variant without content.
RerunFail_Records(r) ==
    /\ mounted = "ChatView"
    /\ r \in reqs /\ r.kind = "rerun"
    /\ variants' = Append(variants,
                          [id |-> NoId, original_message_id |-> r.mid,
                           content |-> <<>>, provider |-> r.provider,
                           model |-> r.model, is_canonical |-> FALSE])
    /\ isLoading' = FALSE
    /\ reqs' = reqs \ {r}
    /\ UNCHANGED <<mounted, appVars, serviceVars, messages, conversationId, providers,
                   selectedProvider, availableModels, selectedModel, rerunModal,
                   lastUsed, fetchPending, srvVars, counters, storeVars>>

\* The rerun of r failed (the request was refused or the provider failed).
RerunFail(r) ==
    /\ mounted = "ChatView"
    /\ r \in reqs /\ r.kind = "rerun"
    /\ isLoading' = FALSE
    /\ reqs' = reqs \ {r}
    /\ UNCHANGED <<mounted, appVars, serviceVars, messages, variants, conversationId, providers,
                   selectedProvider, availableModels, selectedModel, rerunModal,
                   lastUsed, fetchPending, srvVars, counters, storeVars>>

----------------------------------------------------------------------------
(* ChatView.vue: selectVariant, clearVariants, startNewChat *)

\* The Select button of the offered variant vid under the message mid
\* (disabled while isLoading): selectVariant up to its await.
SelectVariant(vid, mid) ==
    /\ mounted = "ChatView"
    /\ MenuClosed
    /\ ~isLoading
    /\ \E i \in DOMAIN messages :
          /\ messages[i].id = mid
          /\ messages[i].role # "user"
          /\ \E v \in Range(OfferedVariants(messages[i])) : v.id = vid
    /\ isLoading' = TRUE
    /\ reqs' = reqs \cup
         {[Req(reqs, "select") EXCEPT
              !.vid = vid, !.mid = mid,
              !.content = (CHOOSE v \in Range(variants) : v.id = vid).content]}
    /\ UNCHANGED <<mounted, appVars, serviceVars, messages, variants, conversationId, providers,
                   selectedProvider, availableModels, selectedModel, rerunModal,
                   lastUsed, fetchPending, srvVars, counters, storeVars>>

\* A faulty selectVariant: the new message is pushed and the original is left
\* active.
SelectedMessages_KeepsOriginal(msgs, hasNew, new_message, deactivated_message_id) ==
    IF hasNew THEN Append(msgs, new_message) ELSE msgs

\* messages after the try block of selectVariant handled a response: the new
\* message, if the response carries one, is pushed; then the first message
\* with the deactivated id, if the response names one, is marked inactive.
SelectedMessages(msgs, hasNew, new_message, deactivated_message_id) ==
    LET pushed == IF hasNew THEN Append(msgs, new_message) ELSE msgs
        i == FindIndex(pushed, LAMBDA m : m.id = deactivated_message_id)
    IN  IF deactivated_message_id # NoId /\ i # 0
        THEN [pushed EXCEPT ![i].is_active = FALSE]
        ELSE pushed

\* A faulty filter: the variants of messageId stay.
WithoutVariantsOf_Keeps(messageId) ==
    Filter(variants, LAMBDA v : TRUE)

\* variants.value.filter(v => v.original_message_id !== messageId)
WithoutVariantsOf(messageId) ==
    Filter(variants, LAMBDA v : v.original_message_id # messageId)

\* The select of r was answered: the back end committed the variant.
SelectOk(r) ==
    /\ mounted = "ChatView"
    /\ r \in reqs /\ r.kind = "select"
    /\ ServerCanSelect(r)
    /\ LET data == ServerSelect(r)
       IN  /\ srvMsgCount' = srvMsgCount + 1
           /\ srvInactive' = srvInactive \cup {r.mid}
           /\ srvPool' = srvPool \ ServerPoolFor(r.mid)
           /\ messages' = SelectedMessages(messages, TRUE, data.new_message,
                                           data.deactivated_message_id)
    /\ variants' = WithoutVariantsOf(r.mid)
    /\ isLoading' = FALSE
    /\ reqs' = reqs \ {r}
    /\ UNCHANGED <<mounted, appVars, serviceVars, conversationId, providers, selectedProvider,
                   availableModels, selectedModel, rerunModal, lastUsed,
                   fetchPending, srvVarCount, counters, storeVars>>

\* The select of r was answered without a new message: the back end
\* deactivated the original and its append of the new message failed.
SelectNoNewMessage(r) ==
    /\ mounted = "ChatView"
    /\ r \in reqs /\ r.kind = "select"
    /\ ServerCanSelect(r)
    /\ srvInactive' = srvInactive \cup {r.mid}
    /\ messages' = SelectedMessages(messages, FALSE, NoMessage, r.mid)
    /\ variants' = WithoutVariantsOf(r.mid)
    /\ isLoading' = FALSE
    /\ reqs' = reqs \ {r}
    /\ UNCHANGED <<mounted, appVars, serviceVars, conversationId, providers, selectedProvider,
                   availableModels, selectedModel, rerunModal, lastUsed,
                   fetchPending, srvMsgCount, srvVarCount, srvPool, counters,
                   storeVars>>

\* What the catch and finally blocks of selectVariant do to the view.
SelectCatch(r) ==
    /\ isLoading' = FALSE
    /\ reqs' = reqs \ {r}
    /\ UNCHANGED <<messages, variants>>

\* A faulty selectVariant: a refused select drops the variants of the message
\* all the same.
SelectFail_Clears(r) ==
    /\ mounted = "ChatView"
    /\ r \in reqs /\ r.kind = "select"
    /\ isLoading' = FALSE
    /\ reqs' = reqs \ {r}
    /\ variants' = WithoutVariantsOf(r.mid)
    /\ UNCHANGED <<mounted, appVars, serviceVars, messages, conversationId, providers, selectedProvider,
                   availableModels, selectedModel, rerunModal, lastUsed,
                   fetchPending, srvVars, counters, storeVars>>

\* The select of r was refused or failed: the back end changed nothing.
SelectFail(r) ==
    /\ mounted = "ChatView"
    /\ r \in reqs /\ r.kind = "select"
    /\ SelectCatch(r)
    /\ UNCHANGED <<mounted, appVars, serviceVars, conversationId, providers, selectedProvider,
                   availableModels, selectedModel, rerunModal, lastUsed,
                   fetchPending, srvVars, counters, storeVars>>

\* The back end committed the select of r and its response did not arrive.
SelectLost(r) ==
    /\ mounted = "ChatView"
    /\ r \in reqs /\ r.kind = "select"
    /\ ServerCanSelect(r)
    /\ srvMsgCount' = srvMsgCount + 1
    /\ srvInactive' = srvInactive \cup {r.mid}
    /\ srvPool' = srvPool \ ServerPoolFor(r.mid)
    /\ SelectCatch(r)
    /\ UNCHANGED <<mounted, appVars, serviceVars, conversationId, providers, selectedProvider,
                   availableModels, selectedModel, rerunModal, lastUsed,
                   fetchPending, srvVarCount, counters, storeVars>>

\* The Keep button under the message mid, shown while it has variants.
ClearVariants(mid) ==
    /\ mounted = "ChatView"
    /\ MenuClosed
    /\ \E i \in DOMAIN messages :
          messages[i].id = mid /\ messages[i].role # "user"
    /\ getVariants(mid) # <<>>
    /\ variants' = WithoutVariantsOf(mid)
    /\ UNCHANGED <<mounted, appVars, serviceVars, messages, isLoading, conversationId, providers,
                   selectedProvider, availableModels, selectedModel, rerunModal,
                   lastUsed, fetchPending, reqs, srvVars, counters,
                   storeVars>>

\* The New chat button.
StartNewChat ==
    /\ mounted = "ChatView"
    /\ MenuClosed
    /\ messages' = <<>>
    /\ conversationId' = NoId
    /\ variants' = <<>>
    /\ UNCHANGED <<mounted, appVars, serviceVars, isLoading, providers, selectedProvider,
                   availableModels, selectedModel, rerunModal, lastUsed,
                   fetchPending, reqs, srvVars, counters, storeVars>>

----------------------------------------------------------------------------
(* chatStore.ts *)

\* The answer of apiInstance.getProviders(): provider keys in the order of the
\* response object.
StoreProviderKeys == <<"ollama", "groq", "gemini">>
ProvidersStatus ==
    [ollama |-> [available |-> TRUE, models |-> <<"llama3:8b", "o2">>],
     groq |-> [available |-> FALSE, models |-> <<"q1">>],
     gemini |-> [available |-> TRUE, models |-> <<>>]]

\* The defaults loadProviders sets when the request fails.
DefaultProviders ==
    [k \in Range(StoreProviderKeys) |-> [available |-> FALSE, models |-> <<>>]]

\* The provider arguments switchProvider is called with (a key of the
\* catalogue and a string that is none), and the model arguments ("" stands
\* for an omitted model).
SwitchProviders == {"ollama", "nope"}
SwitchModels == {"", "o2"}

\* availableProviders of a providers value: the available keys, in key order.
availableProviders(provs) ==
    Filter(StoreProviderKeys, LAMBDA k : k \in DOMAIN provs /\ provs[k].available)

\* currentSession: the index in sessions of the session with currentSessionId,
\* 0 for null.
CurrentIndex ==
    IF currentSessionId = NoId THEN 0
    ELSE FindIndex(sessions, LAMBDA x : x.id = currentSessionId)

\* currentMessages
currentMessages ==
    IF CurrentIndex = 0 THEN <<>> ELSE sessions[CurrentIndex].messages

StoreMsg(id, role, content, provider, model, error) ==
    [id |-> id, role |-> role, content |-> content, provider |-> provider,
     model |-> model, error |-> error]

\* sessions with message appended to the current session.
PushCurrent(message) ==
    [sessions EXCEPT ![CurrentIndex].messages = Append(@, message)]

\* Array.prototype.slice(-n)
LastN(s, n) == IF Len(s) <= n THEN s ELSE SubSeq(s, Len(s) - n + 1, Len(s))

\* saveSessionsToStorage() at the end of a step: what it writes, from the
\* state the step leaves.
Saved ==
    [sessions |-> [i \in DOMAIN sessions' |->
                      [sessions'[i] EXCEPT !.messages = LastN(@, 100)]],
     currentSessionId |-> currentSessionId',
     currentProvider |-> currentProvider',
     currentModel |-> currentModel']

\* initialize() up to its await of loadProviders().
InitializeCall ==
    /\ mounted = "ChatStore"
    /\ nOps < MaxOps
    /\ ~isInitialized
    /\ sIsLoading' = TRUE
    /\ sError' = "null"
    /\ sreqs' = sreqs \cup {Req(sreqs, "init")}
    /\ nOps' = nOps + 1
    /\ UNCHANGED <<mounted, appVars, serviceVars, viewVars, srvVars, now, sessions, currentSessionId,
                   sProviders, currentProvider, currentModel, isInitialized>>
    /\ UNCHANGED chatData

\* loadProviders() returned (ok: getProviders succeeded); initialize then runs
\* loadSessionsFromStorage(), which replaces the sessions and, where the
\* stored values are set, the current session, provider and model; it creates
\* the first session when there is none and selects sessions[0] otherwise.
InitializeReturn(r, ok) ==
    /\ mounted = "ChatStore"
    /\ r \in sreqs /\ r.kind = "init"
    /\ LET firstAvailable == availableProviders(ProvidersStatus)
           provider == IF ok /\ firstAvailable # <<>>
                       THEN firstAvailable[1] ELSE currentProvider
           model == IF ok /\ firstAvailable # <<>>
                    THEN IF ProvidersStatus[firstAvailable[1]].models = <<>>
                         THEN ""
                         ELSE ProvidersStatus[firstAvailable[1]].models[1]
                    ELSE currentModel
           savedData == chatData # NoData
           loadedSessions == IF savedData THEN chatData.sessions ELSE sessions
           loadedProvider == IF savedData /\ chatData.currentProvider # ""
                             THEN chatData.currentProvider ELSE provider
           loadedModel == IF savedData /\ chatData.currentModel # ""
                          THEN chatData.currentModel ELSE model
       IN  /\ sProviders' = IF ok THEN ProvidersStatus ELSE DefaultProviders
           /\ sError' = IF ok THEN sError ELSE "providers"
           /\ currentProvider' = loadedProvider
           /\ currentModel' = loadedModel
           /\ IF loadedSessions = <<>>
              THEN /\ sessions' = <<[id |-> now, messages |-> <<>>,
                                     provider |-> loadedProvider,
                                     model |-> loadedModel]>>
                   /\ currentSessionId' = now
                   /\ now' = now + 1
                   /\ chatData' = Saved
              ELSE /\ sessions' = loadedSessions
                   /\ currentSessionId' = loadedSessions[1].id
                   /\ UNCHANGED <<now, chatData>>
    /\ isInitialized' = TRUE
    /\ sIsLoading' = FALSE
    /\ sreqs' = sreqs \ {r}
    /\ UNCHANGED <<mounted, appVars, serviceVars, viewVars, srvVars, nOps>>

\* switchProvider(provider, model?)
SwitchProvider(provider, model) ==
    /\ mounted = "ChatStore"
    /\ LET providerData == IF sProviders # <<>> /\ provider \in DOMAIN sProviders
                           THEN sProviders[provider]
                           ELSE [available |-> FALSE, models |-> <<>>]
           newModel == IF model # "" THEN model
                       ELSE IF Len(providerData.models) > 0
                            THEN providerData.models[1]
                            ELSE currentModel
       IN  /\ currentProvider' = provider
           /\ currentModel' = newModel
           /\ sessions' = IF CurrentIndex # 0
                          THEN [sessions EXCEPT ![CurrentIndex].provider = provider,
                                                ![CurrentIndex].model = newModel]
                          ELSE sessions
    /\ UNCHANGED <<mounted, appVars, serviceVars, viewVars, srvVars, counters, currentSessionId,
                   sProviders, sIsLoading, sError, isInitialized, sreqs>>
    /\ chatData' = IF CurrentIndex # 0 THEN Saved ELSE chatData

\* The back end accepts a send for a provider of its catalogue that is
\* available and a model of that provider.
ServerCanSend(r) ==
    /\ r.provider \in DOMAIN ProvidersStatus
    /\ ProvidersStatus[r.provider].available
    /\ r.model \in Range(ProvidersStatus[r.provider].models)

\* sendMessage(content) up to its await: it returns on blank content and
\* without a current session.
StoreSendMessage(content) ==
    /\ mounted = "ChatStore"
    /\ nOps < MaxOps
    /\ Trim(content) # <<>>
    /\ CurrentIndex # 0
    /\ sessions' = PushCurrent(StoreMsg(now, "user", Trim(content),
                                        currentProvider, currentModel, FALSE))
    /\ sIsLoading' = TRUE
    /\ sError' = "null"
    /\ sreqs' = sreqs \cup
         {[Req(sreqs, "send") EXCEPT !.text = Trim(content),
                                       !.provider = currentProvider,
                                       !.model = currentModel,
                                       !.conv = currentSessionId,
                                       !.lenBefore = Len(currentMessages)]}
    /\ now' = now + 1
    /\ nOps' = nOps + 1
    /\ UNCHANGED <<mounted, appVars, serviceVars, viewVars, srvVars, currentSessionId, sProviders,
                   currentProvider, currentModel, isInitialized>>
    /\ chatData' = Saved

\* The request of r succeeded: the reply goes to the session that is current
\* now.  Without a current session the push throws in the try block and again
\* in the catch block, and only the finally block takes effect.
StoreSendOk(r) ==
    /\ mounted = "ChatStore"
    /\ r \in sreqs /\ r.kind = "send"
    /\ ServerCanSend(r)
    /\ srvMsgCount' = srvMsgCount + 1
    /\ IF CurrentIndex # 0
       THEN /\ sessions' = PushCurrent(StoreMsg(now, "assistant",
                               ServerSend(r).response, r.provider, r.model, FALSE))
            /\ now' = now + 1
       ELSE UNCHANGED <<sessions, now>>
    /\ sIsLoading' = FALSE
    /\ sreqs' = sreqs \ {r}
    /\ UNCHANGED <<mounted, appVars, serviceVars, viewVars, srvVarCount, srvInactive, srvPool, nOps,
                   currentSessionId, sProviders, sError, currentProvider,
                   currentModel, isInitialized>>
    /\ chatData' = IF CurrentIndex # 0 THEN Saved ELSE chatData

\* The request of r failed: the catch block pushes the error message to the
\* session that is current now and sets error.
StoreSendFail(r) ==
    /\ mounted = "ChatStore"
    /\ r \in sreqs /\ r.kind = "send"
    /\ IF CurrentIndex # 0
       THEN /\ sessions' = PushCurrent(StoreMsg(now, "assistant", ErrorContent,
                               currentProvider, currentModel, TRUE))
            /\ sError' = "send"
            /\ now' = now + 1
       ELSE UNCHANGED <<sessions, sError, now>>
    /\ sIsLoading' = FALSE
    /\ sreqs' = sreqs \ {r}
    /\ UNCHANGED <<mounted, appVars, serviceVars, viewVars, srvVars, nOps, currentSessionId,
                   sProviders, currentProvider, currentModel, isInitialized>>
    /\ chatData' = IF CurrentIndex # 0 THEN Saved ELSE chatData

\* Array.prototype.splice(i, 1), 1-based.
RemoveAt(s, i) == SubSeq(s, 1, i - 1) \o SubSeq(s, i + 1, Len(s))

\* The contents editMessage is called with.
EditContents == { <<"e">> }

\* clearCurrentSession()
ClearCurrentSession ==
    /\ mounted = "ChatStore"
    /\ nOps < MaxOps
    /\ CurrentIndex # 0
    /\ sessions' = [sessions EXCEPT ![CurrentIndex].messages = <<>>]
    /\ nOps' = nOps + 1
    /\ UNCHANGED <<mounted, appVars, serviceVars, viewVars, srvVars, now, currentSessionId, sProviders,
                   sIsLoading, sError, currentProvider, currentModel,
                   isInitialized, sreqs>>
    /\ chatData' = Saved

\* editMessage(messageId, newContent); without a current session or a message
\* of that id it changes nothing.
EditMessage(messageId, newContent) ==
    /\ mounted = "ChatStore"
    /\ nOps < MaxOps
    /\ CurrentIndex # 0
    /\ LET i == FindIndex(currentMessages, LAMBDA m : m.id = messageId)
       IN  /\ i # 0
           /\ sessions' = [sessions EXCEPT ![CurrentIndex].messages[i].content =
                                               newContent]
    /\ nOps' = nOps + 1
    /\ UNCHANGED <<mounted, appVars, serviceVars, viewVars, srvVars, now, currentSessionId, sProviders,
                   sIsLoading, sError, currentProvider, currentModel,
                   isInitialized, sreqs>>
    /\ chatData' = Saved

\* deleteMessage(messageId); without a current session or a message of that
\* id it changes nothing.
DeleteMessage(messageId) ==
    /\ mounted = "ChatStore"
    /\ nOps < MaxOps
    /\ CurrentIndex # 0
    /\ LET index == FindIndex(currentMessages, LAMBDA m : m.id = messageId)
       IN  /\ index # 0
           /\ sessions' = [sessions EXCEPT ![CurrentIndex].messages =
                                               RemoveAt(@, index)]
    /\ nOps' = nOps + 1
    /\ UNCHANGED <<mounted, appVars, serviceVars, viewVars, srvVars, now, currentSessionId, sProviders,
                   sIsLoading, sError, currentProvider, currentModel,
                   isInitialized, sreqs>>
    /\ chatData' = Saved

\* The index of the last user message of msgs, 0 when there is none.
LastUserMessageIndex(msgs) ==
    LET users == { i \in DOMAIN msgs : msgs[i].role = "user" }
    IN  IF users = {} THEN 0 ELSE CHOOSE i \in users : \A j \in users : j <= i

\* regenerateLastResponse() up to the await inside the sendMessage it calls:
\* the messages after the last user message are removed, then sendMessage
\* runs with that message's content (it returns at once on blank content).
RegenerateLastResponse ==
    /\ mounted = "ChatStore"
    /\ nOps < MaxOps
    /\ CurrentIndex # 0
    /\ Len(currentMessages) >= 2
    /\ LastUserMessageIndex(currentMessages) # 0
    /\ LET lastUserMessageIndex == LastUserMessageIndex(currentMessages)
           kept == SubSeq(currentMessages, 1, lastUserMessageIndex)
           content == kept[lastUserMessageIndex].content
       IN  IF Trim(content) = <<>>
           THEN /\ sessions' = [sessions EXCEPT ![CurrentIndex].messages = kept]
                /\ UNCHANGED <<sIsLoading, sError, sreqs, now>>
           ELSE /\ sessions' = [sessions EXCEPT ![CurrentIndex].messages =
                                   Append(kept, StoreMsg(now, "user", Trim(content),
                                                         currentProvider,
                                                         currentModel, FALSE))]
                /\ sIsLoading' = TRUE
                /\ sError' = "null"
                /\ sreqs' = sreqs \cup
                     {[Req(sreqs, "send") EXCEPT !.text = Trim(content),
                                                   !.provider = currentProvider,
                                                   !.model = currentModel,
                                                   !.conv = currentSessionId,
                                                   !.mid = kept[lastUserMessageIndex].id,
                                                   !.lenBefore = Len(kept)]}
                /\ now' = now + 1
    /\ nOps' = nOps + 1
    /\ UNCHANGED <<mounted, appVars, serviceVars, viewVars, srvVars, currentSessionId, sProviders,
                   currentProvider, currentModel, isInitialized>>
    /\ chatData' = IF sreqs' # sreqs THEN Saved ELSE chatData

\* ---------------------------------------------------------------------------
\* api-security.service.ts: the rate limiter.

RateLimits == {1, 2}
RateWindows == {1, 3}

\* Date.now() advances.
Tick ==
    /\ mounted \in {"RateLimiter", "AuthService"}
    /\ now < MaxTime
    /\ now' = now + 1
    /\ UNCHANGED <<mounted, appVars, viewVars, srvVars, storeVars, serviceVars, nOps>>

\* checkRateLimit(endpoint, limit, window): the timestamps of the endpoint
\* that are younger than the window are kept; when there are `limit` of them
\* the call is rejected, otherwise the time of the call is added to them.
\* `accepted` keeps, apart from the program's map, the times of all accepted
\* calls of the endpoint.
CheckRateLimit(endpoint, limit, window) ==
    /\ mounted = "RateLimiter"
    /\ nOps < MaxCalls
    /\ LET key == endpoint
           timestamps == IF key \in DOMAIN rateLimiters
                         THEN rateLimiters[key] ELSE <<>>
           cutoff == now - window
           validTimestamps == Filter(timestamps, LAMBDA t : t > cutoff)
           rejected == Len(validTimestamps) >= limit
           stored == IF rejected THEN validTimestamps
                     ELSE Append(validTimestamps, now)
       IN  /\ rateLimiters' = [k \in DOMAIN rateLimiters \cup {key} |->
                                  IF k = key THEN stored ELSE rateLimiters[k]]
           /\ accepted' = IF rejected THEN accepted
                          ELSE [accepted EXCEPT ![endpoint] = Append(@, now)]
           /\ rateResult' = [endpoint |-> endpoint, limit |-> limit,
                             window |-> window, at |-> now,
                             result |-> ~rejected]
    /\ nOps' = nOps + 1
    /\ UNCHANGED <<mounted, appVars, viewVars, srvVars, storeVars, authVars, now>>

RateNext ==
    \/ Tick
    \/ \E e \in RateEndpoints, l \in RateLimits, w \in RateWindows :
          CheckRateLimit(e, l, w)

\* ---------------------------------------------------------------------------
\* auth.service.ts: AuthService.

\* The lifetime of the access tokens the back end issues, in minutes.
TokenLife == 3

\* The TokenResponse of /api/auth/login and /api/auth/refresh at the time t.
ServerTokens(t) ==
    [access_token |-> Jwt(t + TokenLife), refresh_token |-> RefreshItem]

ReturnedValue(call, value) ==
    [call |-> call, before |-> localStorage, value |-> value]

Returned(call) ==
    ReturnedValue(call, NoItem)

\* A request of login, refreshToken or a call through a client: the client
\* that sends it (AuthService's axiosInstance or JugglerAPI's client), the
\* _retry mark of its config, the number of times it was sent, whether it is
\* with the back end ("sent") or its response interceptor awaits a
\* refreshToken() ("refreshing"), and for a refreshToken() an interceptor
\* called, the request whose interceptor awaits it.
AReq(kind, origin) ==
    [rid |-> CHOOSE n \in 1 .. Cardinality(areqs) + 1 :
                \A q \in areqs : q.rid # n,
     kind |-> kind, origin |-> origin, client |-> "auth", retry |-> FALSE,
     sends |-> 1, pc |-> "sent", waiter |-> 0]

\* The requests that are rejected with r: r, the request whose interceptor
\* awaits r, and so on.
RECURSIVE Chain(_)
Chain(r) ==
    IF r.waiter = 0 THEN {r}
    ELSE {r} \cup UNION { Chain(w) : w \in { q \in areqs : q.rid = r.waiter } }

\* The request r is rejected to its caller.  refreshToken() clears the tokens
\* in its catch block; an interceptor that awaited it logs out (AuthService)
\* and goes to the login page, and rejects its own request in turn; the
\* timer's callback logs out and goes to the login page.  `logout` and
\* `redirect` tell what r's own interceptor did before it rejected.
Rejected(r, logout, redirect) ==
    LET chain == Chain(r)
        top == CHOOSE c \in chain : c.waiter = 0
        waiters == chain \ {r}
        byTimer == top.kind = "refresh" /\ top.origin = "timer"
        loggedOut == logout \/ byTimer \/ \E w \in waiters : w.client = "auth"
        redirected == redirect \/ byTimer \/ waiters # {}
    IN  /\ localStorage' = IF loggedOut \/ r.kind = "refresh"
                           THEN clearTokens(localStorage) ELSE localStorage
        /\ refreshTokenTimeout' = IF loggedOut THEN NoTimer
                                  ELSE refreshTokenTimeout
        /\ location' = IF redirected THEN "/login" ELSE location
        /\ areqs' = areqs \ chain
        /\ authResult' = Returned(IF byTimer THEN "logout"
                                  ELSE IF top.kind = "refresh" THEN "refreshToken"
                                  ELSE top.kind)

\* A boolean as the value of a call.
Bool(b) == [kind |-> IF b THEN "true" ELSE "false", exp |-> 0]

\* getCurrentUser() that returns null for an expired token and leaves the
\* storage as it is.
getCurrentUser_KeepsExpired(storage, t) ==
    LET token == storage[TOKEN_KEY]
    IN  IF token = NoItem \/ token.kind # "jwt" \/ token.exp < t
        THEN <<storage, NoItem>>
        ELSE <<storage, token>>

\* getCurrentUser() on the storage at the time t: <<storage, value>> after it.
\* Without a token, and with one that does not decode, the value is null; an
\* expired token clears the storage; otherwise the value is the decoded
\* token.
getCurrentUser(storage, t) ==
    LET token == storage[TOKEN_KEY]
    IN  IF token = NoItem THEN <<storage, NoItem>>
        ELSE IF token.kind # "jwt" THEN <<storage, NoItem>>
        ELSE IF token.exp < t THEN <<clearTokens(storage), NoItem>>
        ELSE <<storage, token>>

\* getCurrentUser() called from outside.
GetCurrentUser ==
    /\ mounted = "AuthService"
    /\ localStorage' = getCurrentUser(localStorage, now)[1]
    /\ authResult' = ReturnedValue("getCurrentUser",
                                   getCurrentUser(localStorage, now)[2])
    /\ UNCHANGED <<mounted, appVars, viewVars, srvVars, storeVars, rateVars,
                   refreshTokenTimeout, areqs, location, now, nOps>>

\* isAuthenticated(): !!this.getCurrentUser().
IsAuthenticated ==
    /\ mounted = "AuthService"
    /\ localStorage' = getCurrentUser(localStorage, now)[1]
    /\ authResult' = ReturnedValue("isAuthenticated",
                          Bool(getCurrentUser(localStorage, now)[2] # NoItem))
    /\ UNCHANGED <<mounted, appVars, viewVars, srvVars, storeVars, rateVars,
                   refreshTokenTimeout, areqs, location, now, nOps>>

\* login(credentials), up to its await.
Login ==
    /\ mounted = "AuthService"
    /\ nOps < MaxOps
    /\ Cardinality(areqs) < MaxRequests
    /\ areqs' = areqs \cup {AReq("login", "caller")}
    /\ nOps' = nOps + 1
    /\ UNCHANGED <<mounted, appVars, viewVars, srvVars, storeVars, rateVars,
                   localStorage, refreshTokenTimeout, location, authResult,
                   now>>

\* login(credentials), the response arrived: setTokens(), setupTokenRefresh().
LoginOk(r) ==
    /\ r.kind = "login" /\ r.pc = "sent"
    /\ LET set == setupTokenRefresh(setTokens(localStorage, ServerTokens(now)),
                                    now)
       IN  /\ localStorage' = set[1]
           /\ refreshTokenTimeout' = set[2]
    /\ areqs' = areqs \ {r}
    /\ authResult' = Returned("login")
    /\ UNCHANGED <<mounted, appVars, viewVars, srvVars, storeVars, rateVars, location,
                   now, nOps>>

\* login(credentials), the request failed with a status other than 401: an
\* Error is thrown.
LoginFail(r) ==
    /\ r.kind = "login" /\ r.pc = "sent"
    /\ Rejected(r, FALSE, FALSE)
    /\ UNCHANGED <<mounted, appVars, viewVars, srvVars, storeVars, rateVars, now, nOps>>

\* logout(): clearTokens(), and the pending refresh timer is cleared.
Logout ==
    /\ mounted = "AuthService"
    /\ localStorage' = clearTokens(localStorage)
    /\ refreshTokenTimeout' = NoTimer
    /\ authResult' = Returned("logout")
    /\ UNCHANGED <<mounted, appVars, viewVars, srvVars, storeVars, rateVars, areqs,
                   location, now, nOps>>

\* refreshToken() called from outside, up to its await; without a refresh
\* token it throws at once.
RefreshToken ==
    /\ mounted = "AuthService"
    /\ nOps < MaxOps
    /\ Cardinality(areqs) < MaxRequests
    /\ nOps' = nOps + 1
    /\ IF localStorage[REFRESH_TOKEN_KEY] = NoItem
       THEN /\ authResult' = Returned("refreshToken")
            /\ UNCHANGED areqs
       ELSE /\ areqs' = areqs \cup {AReq("refresh", "caller")}
            /\ UNCHANGED authResult
    /\ UNCHANGED <<mounted, appVars, viewVars, srvVars, storeVars, rateVars,
                   localStorage, refreshTokenTimeout, location, now>>

\* The refresh timer fires: refreshToken() is called; when it throws at once
\* the callback logs out and goes to the login page.
RefreshTimer ==
    /\ mounted = "AuthService"
    /\ Cardinality(areqs) < MaxRequests
    /\ refreshTokenTimeout # NoTimer
    /\ now >= refreshTokenTimeout
    /\ refreshTokenTimeout' = NoTimer
    /\ IF localStorage[REFRESH_TOKEN_KEY] = NoItem
       THEN /\ localStorage' = clearTokens(localStorage)
            /\ location' = "/login"
            /\ authResult' = Returned("logout")
            /\ UNCHANGED areqs
       ELSE /\ areqs' = areqs \cup {AReq("refresh", "timer")}
            /\ UNCHANGED <<localStorage, location, authResult>>
    /\ UNCHANGED <<mounted, appVars, viewVars, srvVars, storeVars, rateVars, now, nOps>>

\* areqs without r, the request whose interceptor awaited r sent again.
Resent(r) ==
    { IF q.rid = r.waiter THEN [q EXCEPT !.pc = "sent", !.sends = @ + 1] ELSE q :
        q \in areqs \ {r} }

\* refreshToken(), the response arrived: setTokens(), setupTokenRefresh(); an
\* interceptor that awaited it sends its request again.
RefreshOk(r) ==
    /\ r.kind = "refresh" /\ r.pc = "sent"
    /\ LET set == setupTokenRefresh(setTokens(localStorage, ServerTokens(now)),
                                    now)
       IN  /\ localStorage' = set[1]
           /\ refreshTokenTimeout' = set[2]
    /\ areqs' = Resent(r)
    /\ authResult' = Returned("refreshToken")
    /\ UNCHANGED <<mounted, appVars, viewVars, srvVars, storeVars, rateVars, location,
                   now, nOps>>

\* refreshToken(), the request failed with a status other than 401:
\* clearTokens() and the error is thrown on to the caller, the timer's
\* callback or the interceptor that awaited it.
RefreshFail(r) ==
    /\ r.kind = "refresh" /\ r.pc = "sent"
    /\ Rejected(r, FALSE, FALSE)
    /\ UNCHANGED <<mounted, appVars, viewVars, srvVars, storeVars, rateVars, now, nOps>>

\* The clients a call goes through.
Clients == {"auth", "juggler"}

\* A call through AuthService's axiosInstance or JugglerAPI's client, up to
\* the request being sent.
ApiCall(client) ==
    /\ mounted = "AuthService"
    /\ nOps < MaxOps
    /\ Cardinality(areqs) < MaxRequests
    /\ areqs' = areqs \cup {[AReq("api", "caller") EXCEPT !.client = client]}
    /\ nOps' = nOps + 1
    /\ UNCHANGED <<mounted, appVars, viewVars, srvVars, storeVars, rateVars,
                   localStorage, refreshTokenTimeout, location, authResult,
                   now>>

\* The call of r is answered: the response is handed to the caller.
ApiCallOk(r) ==
    /\ r.kind = "api" /\ r.pc = "sent"
    /\ areqs' = areqs \ {r}
    /\ authResult' = Returned("api")
    /\ UNCHANGED <<mounted, appVars, viewVars, srvVars, storeVars, rateVars,
                   localStorage, refreshTokenTimeout, location, now, nOps>>

\* The call of r failed with a status other than 401: it is rejected.
ApiCallFail(r) ==
    /\ r.kind = "api" /\ r.pc = "sent"
    /\ Rejected(r, FALSE, FALSE)
    /\ UNCHANGED <<mounted, appVars, viewVars, srvVars, storeVars, rateVars, now, nOps>>

\* The request r is answered with 401.  AuthService's interceptor rejects a
\* request marked _retry; otherwise it marks it and awaits refreshToken().
\* JugglerAPI's interceptor awaits refreshToken() for every 401.  Without a
\* refresh token refreshToken() throws at once, and the interceptor's catch
\* block runs: AuthService's logs out, both go to the login page, and the
\* request is rejected.
Unauthorized(r) ==
    /\ r.pc = "sent"
    /\ r.sends < MaxSends
    /\ IF r.client = "auth" /\ r.retry
       THEN Rejected(r, FALSE, FALSE)
       ELSE IF localStorage[REFRESH_TOKEN_KEY] = NoItem
            THEN Rejected(r, r.client = "auth", TRUE)
            ELSE /\ Cardinality(areqs) < MaxRequests
                 /\ areqs' = (areqs \ {r}) \cup
                       {[r EXCEPT !.retry = (r.client = "auth"),
                                  !.pc = "refreshing"],
                        [AReq("refresh", "interceptor") EXCEPT
                            !.waiter = r.rid]}
                 /\ UNCHANGED <<localStorage, refreshTokenTimeout, location,
                                authResult>>
    /\ UNCHANGED <<mounted, appVars, viewVars, srvVars, storeVars, rateVars, now, nOps>>

AuthNext ==
    \/ Login
    \/ \E r \in areqs : LoginOk(r)
    \/ \E r \in areqs : LoginFail(r)
    \/ Logout
    \/ RefreshToken
    \/ RefreshTimer
    \/ \E r \in areqs : RefreshOk(r)
    \/ \E r \in areqs : RefreshFail(r)
    \/ \E client \in Clients : ApiCall(client)
    \/ \E r \in areqs : ApiCallOk(r)
    \/ \E r \in areqs : ApiCallFail(r)
    \/ \E r \in areqs : Unauthorized(r)
    \/ GetCurrentUser
    \/ IsAuthenticated

ServiceNext == RateNext \/ AuthNext

\* ---------------------------------------------------------------------------
\* stores/auth.ts: the auth store.

\* The properties the setup function of the store returns; no other name is
\* a property of the store object.
AuthStoreExposed ==
    {"user", "isAuthenticated", "login", "register", "logout", "fetchUser"}

\* authStore.<name> as a component, the api client and the router guard read
\* it.
AuthStoreRead(name) ==
    IF name \notin AuthStoreExposed THEN Undefined
    ELSE IF name = "user" THEN authUser
    ELSE IF name = "isAuthenticated"
         THEN (IF Truthy(authToken) THEN "true" ELSE "false")
    ELSE name

PReq(kind, header) ==
    [rid |-> CHOOSE n \in 1 .. Cardinality(preqs) + 1 :
                \A q \in preqs : q.rid # n,
     kind |-> kind, header |-> header]

\* logout() of the store: the three refs become null, the two items are
\* removed and the default header of axios is deleted.
AuthStoreLogout ==
    /\ authUser' = Null
    /\ authToken' = Null
    /\ authRefreshToken' = Null
    /\ appStorage' = [k \in {ACCESS_KEY, REFRESH_KEY} |-> Null]
    /\ axiosDefaults' = NoHeader

\* login(username, password) and register(username, email, password), up to
\* the await of axios.post.
AuthLogin(kind) ==
    /\ mounted = "App"
    /\ nOps < MaxOps
    /\ preqs' = preqs \cup {PReq(kind, axiosDefaults)}
    /\ nOps' = nOps + 1
    /\ UNCHANGED <<mounted, viewVars, srvVars, storeVars, serviceVars,
                   authUser, authToken, authRefreshToken, appStorage,
                   axiosDefaults, route, apiResult, now>>

\* login / register, the response arrived: the tokens are stored and
\* fetchUser() sends GET /api/auth/me.
AuthLoginOk(r, t) ==
    /\ r.kind \in {"login", "register"}
    /\ authToken' = t
    /\ authRefreshToken' = StoredRefresh
    /\ appStorage' = [k \in {ACCESS_KEY, REFRESH_KEY} |->
                         IF k = ACCESS_KEY THEN t ELSE StoredRefresh]
    /\ axiosDefaults' = Bearer(t)
    /\ preqs' = (preqs \ {r}) \cup {[r EXCEPT !.kind = "me",
                                              !.header = Bearer(t)]}
    /\ UNCHANGED <<mounted, viewVars, srvVars, storeVars, serviceVars,
                   authUser, route, apiResult, now, nOps>>

\* login / register, the request failed: { success: false } is returned.
AuthLoginFail(r) ==
    /\ r.kind \in {"login", "register"}
    /\ preqs' = preqs \ {r}
    /\ UNCHANGED <<mounted, viewVars, srvVars, storeVars, serviceVars,
                   authUser, authToken, authRefreshToken, appStorage,
                   axiosDefaults, route, apiResult, now, nOps>>

\* fetchUser() called by a component, up to the await of axios.get; without a
\* token it returns at once.
FetchUser ==
    /\ mounted = "App"
    /\ nOps < MaxOps
    /\ Truthy(authToken)
    /\ preqs' = preqs \cup {PReq("me", axiosDefaults)}
    /\ nOps' = nOps + 1
    /\ UNCHANGED <<mounted, viewVars, srvVars, storeVars, serviceVars,
                   authUser, authToken, authRefreshToken, appStorage,
                   axiosDefaults, route, apiResult, now>>

\* fetchUser(), the response arrived.
FetchUserOk(r) ==
    /\ r.kind = "me"
    /\ authUser' = User
    /\ preqs' = preqs \ {r}
    /\ UNCHANGED <<mounted, viewVars, srvVars, storeVars, serviceVars,
                   authToken, authRefreshToken, appStorage, axiosDefaults,
                   route, apiResult, now, nOps>>

\* fetchUser(), the request failed: logout().
FetchUserFail(r) ==
    /\ r.kind = "me"
    /\ AuthStoreLogout
    /\ preqs' = preqs \ {r}
    /\ UNCHANGED <<mounted, viewVars, srvVars, storeVars, serviceVars, route,
                   apiResult, now, nOps>>

\* logout() called by a component.
AuthLogout ==
    /\ mounted = "App"
    /\ AuthStoreLogout
    /\ UNCHANGED <<mounted, viewVars, srvVars, storeVars, serviceVars, route,
                   preqs, apiResult, now, nOps>>

\* ---------------------------------------------------------------------------
\* router/index.ts: the routes and the navigation guard.

Paths == {"/login", "/", "/config"}
RequiresAuth == {"/", "/config"}

\* A guard that lets every navigation through.
Guard_LetsThrough(to, isAuthenticated) ==
    to

\* router.beforeEach: the path a navigation to `to` resolves to, given
\* authStore.isAuthenticated.
Guard(to, isAuthenticated) ==
    IF to \in RequiresAuth /\ ~isAuthenticated THEN "/login"
    ELSE IF to = "/login" /\ isAuthenticated THEN "/"
    ELSE to

\* router.push(to): the guard decides with the store as it is.
Navigate(to) ==
    /\ mounted = "App"
    /\ route' = [to |-> to,
                 path |-> Guard(to, AuthStoreRead("isAuthenticated") = "true")]
    /\ UNCHANGED <<mounted, viewVars, srvVars, storeVars, serviceVars,
                   authUser, authToken, authRefreshToken, appStorage,
                   axiosDefaults, preqs, apiResult, now, nOps>>

\* ---------------------------------------------------------------------------
\* utils/axios.ts: the shared api client.

ErrorStatuses == {401, 403, 500}

\* The request interceptor: the Authorization header of a request.
RequestHeader ==
    IF Truthy(AuthStoreRead("token"))
    THEN Bearer(AuthStoreRead("token"))
    ELSE NoHeader

\* A call through the api client, up to the request being sent.
ApiRequest ==
    /\ mounted = "App"
    /\ nOps < MaxOps
    /\ preqs' = preqs \cup {PReq("api", RequestHeader)}
    /\ nOps' = nOps + 1
    /\ UNCHANGED <<mounted, viewVars, srvVars, storeVars, serviceVars,
                   authUser, authToken, authRefreshToken, appStorage,
                   axiosDefaults, route, apiResult, now>>

\* The response interceptor, success: the response is handed on.
ApiOk(r) ==
    /\ r.kind = "api"
    /\ preqs' = preqs \ {r}
    /\ apiResult' = Settled(r.rid, "resolved", 200, authToken)
    /\ UNCHANGED <<mounted, viewVars, srvVars, storeVars, serviceVars,
                   authUser, authToken, authRefreshToken, appStorage,
                   axiosDefaults, route, now, nOps>>

\* The response interceptor that logs out on every error status.
ApiError_AnyStatus(r, status) ==
    /\ r.kind = "api"
    /\ preqs' = preqs \ {r}
    /\ apiResult' = Settled(r.rid, "rejected", status, authToken)
    /\ AuthStoreLogout
    /\ route' = [to |-> "/login", path |-> Guard("/login", FALSE)]
    /\ UNCHANGED <<mounted, viewVars, srvVars, storeVars, serviceVars, now,
                   nOps>>

\* The response interceptor, error: on 401 the store is logged out and
\* router.push('/login') runs the guard on the logged-out store; the error is
\* rejected to the caller.
ApiError(r, status) ==
    /\ r.kind = "api"
    /\ preqs' = preqs \ {r}
    /\ apiResult' = Settled(r.rid, "rejected", status, authToken)
    /\ IF status = 401
       THEN /\ AuthStoreLogout
            /\ route' = [to |-> "/login", path |-> Guard("/login", FALSE)]
       ELSE UNCHANGED <<authUser, authToken, authRefreshToken, appStorage,
                        axiosDefaults, route>>
    /\ UNCHANGED <<mounted, viewVars, srvVars, storeVars, serviceVars, now,
                   nOps>>

AppNext ==
    \/ \E kind \in {"login", "register"} : AuthLogin(kind)
    \/ \E r \in preqs, t \in Tokens : AuthLoginOk(r, t)
    \/ \E r \in preqs : AuthLoginFail(r)
    \/ FetchUser
    \/ \E r \in preqs : FetchUserOk(r)
    \/ \E r \in preqs : FetchUserFail(r)
    \/ AuthLogout
    \/ \E to \in Paths : Navigate(to)
    \/ ApiRequest
    \/ \E r \in preqs : ApiOk(r)
    \/ \E r \in preqs, status \in ErrorStatuses : ApiError(r, status)

\* createNewSession(): the new session is put in front and becomes current.
NewSession(id) ==
    [id |-> id, messages |-> <<>>, provider |-> currentProvider,
     model |-> currentModel]

CreateNewSession ==
    /\ mounted = "ChatStore"
    /\ nOps < MaxOps
    /\ sessions' = <<NewSession(now)>> \o sessions
    /\ currentSessionId' = now
    /\ now' = now + 1
    /\ nOps' = nOps + 1
    /\ UNCHANGED <<mounted, appVars, serviceVars, viewVars, srvVars,
                   sProviders, sIsLoading, sError, currentProvider,
                   currentModel, isInitialized, sreqs>>
    /\ chatData' = Saved

\* An id no session has.
UnknownSessionId == 99

\* switchSession(sessionId): with a session of that id it becomes current and
\* its provider and model, where set, become the current ones; without one
\* nothing happens.
SwitchSession(sessionId) ==
    /\ mounted = "ChatStore"
    /\ LET index == FindIndex(sessions, LAMBDA x : x.id = sessionId)
       IN  IF index # 0
           THEN /\ currentSessionId' = sessionId
                /\ currentProvider' = IF sessions[index].provider # ""
                                      THEN sessions[index].provider
                                      ELSE currentProvider
                /\ currentModel' = IF sessions[index].model # ""
                                   THEN sessions[index].model
                                   ELSE currentModel
           ELSE UNCHANGED <<currentSessionId, currentProvider, currentModel>>
    /\ UNCHANGED <<mounted, appVars, serviceVars, viewVars, srvVars, counters,
                   sessions, sProviders, sIsLoading, sError, isInitialized,
                   sreqs, chatData>>

\* deleteSession that leaves the current session id as it is.
DeleteSession_KeepsCurrent(sessionId) ==
    /\ mounted = "ChatStore"
    /\ nOps < MaxOps
    /\ LET index == FindIndex(sessions, LAMBDA x : x.id = sessionId)
       IN  /\ index # 0
           /\ sessions' = RemoveAt(sessions, index)
    /\ nOps' = nOps + 1
    /\ UNCHANGED <<mounted, appVars, serviceVars, viewVars, srvVars, now,
                   currentSessionId, sProviders, sIsLoading, sError,
                   currentProvider, currentModel, isInitialized, sreqs>>
    /\ chatData' = Saved

\* deleteSession(sessionId): the first session of that id is removed; when it
\* was the current one, the first remaining session becomes current, or a new
\* session is created when none remains.
DeleteSession(sessionId) ==
    /\ mounted = "ChatStore"
    /\ nOps < MaxOps
    /\ LET index == FindIndex(sessions, LAMBDA x : x.id = sessionId)
           rest == RemoveAt(sessions, index)
       IN  /\ index # 0
           /\ IF currentSessionId = sessionId
              THEN IF Len(rest) > 0
                   THEN /\ sessions' = rest
                        /\ currentSessionId' = rest[1].id
                        /\ UNCHANGED now
                   ELSE /\ sessions' = <<NewSession(now)>>
                        /\ currentSessionId' = now
                        /\ now' = now + 1
              ELSE /\ sessions' = rest
                   /\ UNCHANGED <<currentSessionId, now>>
    /\ nOps' = nOps + 1
    /\ UNCHANGED <<mounted, appVars, serviceVars, viewVars, srvVars,
                   sProviders, sIsLoading, sError, currentProvider,
                   currentModel, isInitialized, sreqs>>
    /\ chatData' = Saved

\* The files importSessions is called with: one session without an id, and
\* one with the id of a session an earlier visit saved.
ImportFiles ==
    { <<[id |-> NoId, messages |-> <<>>, provider |-> "", model |-> ""]>>,
      <<[id |-> 90, messages |-> <<>>, provider |-> "", model |-> ""]>> }

\* importSessions(jsonData): the sessions of the file are appended, each with
\* its id or, without one, a generated id.
ImportSessions(imported) ==
    /\ mounted = "ChatStore"
    /\ nOps < MaxOps
    /\ LET validSessions == [i \in DOMAIN imported |->
                                [imported[i] EXCEPT
                                    !.id = IF @ # NoId THEN @ ELSE now]]
       IN  sessions' = sessions \o validSessions
    /\ now' = IF \E i \in DOMAIN imported : imported[i].id = NoId
              THEN now + 1 ELSE now
    /\ nOps' = nOps + 1
    /\ UNCHANGED <<mounted, appVars, serviceVars, viewVars, srvVars,
                   currentSessionId, sProviders, sIsLoading, sError,
                   currentProvider, currentModel, isInitialized, sreqs>>
    /\ chatData' = Saved

StoreNext ==
    \/ InitializeCall
    \/ \E r \in sreqs, ok \in BOOLEAN : InitializeReturn(r, ok)
    \/ \E p \in SwitchProviders, m \in SwitchModels : SwitchProvider(p, m)
    \/ \E content \in Texts : StoreSendMessage(content)
    \/ \E r \in sreqs : StoreSendOk(r)
    \/ \E r \in sreqs : StoreSendFail(r)
    \/ ClearCurrentSession
    \/ \E m \in Range(currentMessages), c \in EditContents : EditMessage(m.id, c)
    \/ \E m \in Range(currentMessages) : DeleteMessage(m.id)
    \/ RegenerateLastResponse
    \/ CreateNewSession
    \/ \E x \in Range(sessions) : SwitchSession(x.id)
    \/ SwitchSession(UnknownSessionId)
    \/ \E x \in Range(sessions) : DeleteSession(x.id)
    \/ \E imported \in ImportFiles : ImportSessions(imported)

----------------------------------------------------------------------------
(* Specifications *)

\* The operations of a conversation in the view: provider and model
\* selection, turns, reruns and branching decisions, with a back end that
\* answers a select completely or not at all.
TurnNext ==
    \/ \E ok \in BOOLEAN : FetchEnabledModels(ok)
    \/ \E p \in Range(ProviderKeys) : ProviderChange(p)
    \/ \E m \in Range(availableModels) : ModelChange(m)
    \/ \E text \in Texts : SendMessage(text)
    \/ \E r \in reqs : SendPostOk(r)
    \/ \E r \in reqs : SendFetchDone(r)
    \/ \E r \in reqs : SendFail(r)
    \/ \E m \in Range(messages) : ShowRerunModal(m.id)
    \/ \E p \in Range(ProviderKeys) : PickRerunProvider(p)
    \/ CloseRerunModal
    \/ \E model \in Range(rerunModal.models) : RerunMessage(model)
    \/ \E r \in reqs : RerunOk(r)
    \/ \E r \in reqs : RerunFail(r)
    \/ \E m \in Range(messages), v \in Range(variants) : SelectVariant(v.id, m.id)
    \/ \E r \in reqs : SelectOk(r)
    \/ \E r \in reqs : SelectFail(r)
    \/ \E r \in reqs : SelectLost(r)
    \/ \E m \in Range(messages) : ClearVariants(m.id)

ViewNext ==
    \/ TurnNext
    \/ \E r \in reqs : SelectNoNewMessage(r)
    \/ StartNewChat

Next == ViewNext \/ StoreNext \/ ServiceNext \/ AppNext

Spec == Init /\ [][Next]_vars

TurnSpec == Init /\ [][TurnNext]_vars

\* Every request the back end received returns: a pending send of the view
\* gets its answer or its failure and its fetchConversations() returns, a
\* pending send of the store gets its answer or its failure.
Fairness ==
    /\ WF_vars(\E r \in reqs : SendPostOk(r) \/ SendFail(r))
    /\ WF_vars(\E r \in reqs : SendFetchDone(r))
    /\ WF_vars(\E r \in sreqs : StoreSendOk(r) \/ StoreSendFail(r))

FairSpec == Spec /\ Fairness

----------------------------------------------------------------------------
(* Claims *)

\* A thread is linear when its messages alternate user, assistant, user, ...
Linear(thread) ==
    \A i \in DOMAIN thread :
        thread[i].role = IF i % 2 = 1 THEN "user" ELSE "assistant"

\* The last element of a non-empty sequence.
Last(s) == s[Len(s)]

\* The sends in flight of the view and of the store.
ViewSends == { r \in reqs : r.kind = "send" }
StoreSends == { r \in sreqs : r.kind = "send" }

\* C1: after any sequence of sendMessage and selectVariant calls the active
\* thread holds exactly one active message at every turn position: it
\* alternates user and assistant messages, and while no request is in flight
\* every user message has its reply.
C1_ActiveThreadLinear ==
    /\ Linear(ActiveThread)
    /\ reqs = {} => Len(ActiveThread) % 2 = 0

\* C2: a step in which selectVariant succeeds for the variant r.vid of the
\* message r.mid appends one message that is an active assistant message with
\* the variant's content, leaves no message with the id of the original
\* active, and leaves the pool of the original empty.
C2_SelectCommits ==
    [][\A r \in reqs :
          SelectOk(r) =>
             /\ Len(messages') = Len(messages) + 1
             /\ Last(messages').role = "assistant"
             /\ Last(messages').is_active = TRUE
             /\ Last(messages').content = r.content
             /\ \A i \in DOMAIN messages' :
                   messages'[i].id = r.mid => messages'[i].is_active = FALSE
             /\ \A i \in DOMAIN messages : messages[i].id = r.mid =>
                   \E j \in DOMAIN messages' : messages'[j].id = r.mid
             /\ \A v \in Range(variants') : v.original_message_id # r.mid]_vars

\* A select succeeded: the original is inactive, the message committed from
\* the first variant is active behind it, no variant of the original is left.
C2_Witness ==
    \E i, j \in DOMAIN messages :
        /\ i < j
        /\ messages[i].role = "assistant"
        /\ messages[i].is_active = FALSE
        /\ messages[j].is_active = TRUE
        /\ messages[j].content = ReplyContent(ServerVariantId(1))
        /\ getVariants(messages[i].id) = <<>>

\* C3: once a select has been committed for an original message, a further
\* selectVariant call for the same original ends without effect: the step in
\* which it returns changes neither the messages, nor the variants, nor the
\* state of the back end.
C3_SecondSelectRejected ==
    [][\A r \in reqs :
          (r.kind = "select" /\ r.mid \in srvInactive /\ r \notin reqs') =>
             /\ messages' = messages
             /\ variants' = variants
             /\ srvVars' = srvVars]_vars

\* A second select for an original the back end has branched is in flight,
\* the view still showing the original as active with its variant.
C3_Witness ==
    \E r \in reqs :
        /\ r.kind = "select"
        /\ r.mid \in srvInactive
        /\ \E v \in Range(variants) : v.id = r.vid
        /\ \E i \in DOMAIN messages : messages[i].id = r.mid /\ messages[i].is_active

\* A step of rerunMessage: a rerun request is issued or returns.
RerunStep ==
    \/ \E r \in reqs' \ reqs : r.kind = "rerun"
    \/ \E r \in reqs \ reqs' : r.kind = "rerun"

\* C4: no step of rerunMessage, successful or failed, changes messages (and so
\* none changes the active thread).
C4_RerunKeepsMessages ==
    [][RerunStep => (messages' = messages /\ ActiveThread' = ActiveThread)]_vars

\* A rerun succeeded: a variant of an active message of the thread is held.
C4_Witness ==
    \E v \in Range(variants) :
        \E i \in DOMAIN messages :
            messages[i].id = v.original_message_id /\ messages[i].is_active

\* C5: at most one send is in flight per conversation, in the view and in the
\* store.
C5_OneSendInFlight ==
    /\ Cardinality(ViewSends) <= 1
    /\ Cardinality(StoreSends) <= 1

ProviderValid(catalogue, provider) ==
    /\ provider \in DOMAIN catalogue
    /\ catalogue[provider].available

\* C7: a send whose provider is not in the catalogue or not available there
\* is rejected before any mutation: no step issues a send request (and appends
\* its user message) for such a provider.
C7_ProviderValidated ==
    [][/\ \A r \in reqs' \ reqs :
             r.kind = "send" => ProviderValid(providers, r.provider)
       /\ \A r \in sreqs' \ sreqs :
             r.kind = "send" => ProviderValid(sProviders, r.provider)]_vars

\* The step in which the send r of the view ends, and the one in which the
\* send r of the store ends.
ViewSendEnds(r) ==
    r \in ViewSends /\ \A q \in reqs' : q.rid # r.rid
StoreSendEnds(r) ==
    r \in StoreSends /\ r \notin sreqs'

C9_DeactivationNeedsNewMessage ==
    [][\A i \in DOMAIN messages :
          (/\ messages[i].is_active = TRUE
           /\ i \in DOMAIN messages'
           /\ messages'[i].id = messages[i].id
           /\ messages'[i].is_active = FALSE) =>
             /\ Len(messages') = Len(messages) + 1
             /\ Last(messages').role = "assistant"
             /\ Last(messages').is_active = TRUE]_vars

\* C10: the decision is final: a message that has been branched (it is
\* inactive) has no variant, in any later state, whatever reruns were issued
\* for it before or after.
C10_DecisionFinal ==
    \A i \in DOMAIN messages :
        messages[i].is_active = FALSE => getVariants(messages[i].id) = <<>>

\* A rerun for a branched message is in flight.
C10_Witness ==
    \E i \in DOMAIN messages :
        /\ messages[i].is_active = FALSE
        /\ \E r \in reqs : r.kind = "rerun" /\ r.mid = messages[i].id

\* C11: a rerun whose request fails is discarded: neither the step that
\* issues it nor the step in which it fails changes the variants, the pool of
\* the back end or the messages.
C11_FailedRerunDiscarded ==
    [][((\E model \in Range(rerunModal.models) : RerunMessage(model))
        \/ (\E r \in reqs : RerunFail(r))) =>
          /\ variants' = variants
          /\ srvPool' = srvPool
          /\ srvVarCount' = srvVarCount
          /\ messages' = messages]_vars

\* A rerun failed: after one answered send (one user message, so now = 2) a
\* second call was made that was no send, it has ended, and no variant exists.
C11_Witness ==
    /\ mounted = "ChatView"
    /\ nOps = 2
    /\ now = 2
    /\ Len(messages) = 2
    /\ reqs = {}
    /\ ~isLoading
    /\ variants = <<>>
    /\ srvVarCount = 0

\* The refs of the view other than isLoading: everything in which a handler
\* could leave a record of a failure for its caller (the template) to show.
ViewRecord ==
    <<messages, variants, conversationId, providers, selectedProvider,
      availableModels, selectedModel, rerunModal, lastUsed>>

\* C12: a failed request is never swallowed: the step in which a send, a
\* rerun or a select fails leaves a record of the failure in the view (the
\* error turn of a send, an error handed back by rerunMessage and
\* selectVariant), so that the failed call differs from one that was not made.
C12_ErrorsSurfaced ==
    [][\A r \in reqs :
          (SendFail(r) \/ RerunFail(r) \/ SelectFail(r) \/ SelectLost(r)) =>
             ViewRecord' # ViewRecord]_vars

\* C13: a rerun request is issued only for an active assistant message of the
\* conversation: every step that issues one names a message of the list with
\* role assistant and is_active not false.
C13_RerunOnlyOnActive ==
    [][\A r \in reqs' \ reqs :
          r.kind = "rerun" =>
             \E i \in DOMAIN messages :
                /\ messages[i].id = r.mid
                /\ messages[i].role = "assistant"
                /\ messages[i].is_active # FALSE]_vars

\* C14: reruns of one message do not block each other: while a rerun of a
\* message of the list is pending, the Rerun control of that message can be
\* used to start a further one.
C14_RerunsDoNotBlock ==
    \A r \in reqs :
        (r.kind = "rerun" /\ \E i \in DOMAIN messages : messages[i].id = r.mid) =>
           ENABLED ShowRerunModal(r.mid)

\* C15: a provider chosen without an explicit model gets the model at index 0
\* of its model list whenever the list is not empty: in the view's provider
\* change, in the store's switchProvider(provider) and in the default set by
\* loadProviders.
C15_FirstModelSelected ==
    [][/\ \A p \in Range(ProviderKeys) :
             (ProviderChange(p) /\ ModelsOf(p) # <<>>) =>
                selectedModel' = ModelsOf(p)[1]
       /\ \A p \in SwitchProviders :
             (/\ SwitchProvider(p, "")
              /\ sProviders # <<>>
              /\ p \in DOMAIN sProviders
              /\ sProviders[p].models # <<>>) =>
                currentModel' = sProviders[p].models[1]
       /\ \A r \in sreqs :
             (/\ InitializeReturn(r, TRUE)
              /\ availableProviders(ProvidersStatus) # <<>>
              /\ ProvidersStatus[availableProviders(ProvidersStatus)[1]].models # <<>>) =>
                currentModel' =
                   ProvidersStatus[availableProviders(ProvidersStatus)[1]].models[1]]_vars

\* The model is one of the provider's model list in the catalogue (and so not
\* the empty model id).
ModelValid(catalogue, provider, model) ==
    /\ model # ""
    /\ provider \in DOMAIN catalogue
    /\ model \in Range(catalogue[provider].models)

\* C16: no chat request is sent with an empty model id or with a model that is
\* not in the selected provider's model list; with an empty list the send
\* fails instead of issuing a request.
C16_ModelOfProvider ==
    [][/\ \A r \in reqs' \ reqs :
             r.kind = "send" => ModelValid(providers, r.provider, r.model)
       /\ \A r \in sreqs' \ sreqs :
             r.kind = "send" => ModelValid(sProviders, r.provider, r.model)]_vars

\* The message m is kept in msgs: as it is, or superseded (is_active flipped
\* from true to false) where messages carry that flag.
KeptIn(m, msgs) ==
    \E j \in DOMAIN msgs :
        \/ msgs[j] = m
        \/ /\ "is_active" \in DOMAIN m
           /\ m.is_active = TRUE
           /\ msgs[j] = [m EXCEPT !.is_active = FALSE]

\* C17: the messages of a conversation are never deleted and never rewritten:
\* every message of a session of the store, and every message of the view's
\* conversation while the view stays on it, is still there after every step,
\* unchanged but for the flip of is_active from true to false.
C17_MessagesNeverDeleted ==
    [][/\ \A s \in DOMAIN sessions :
             (s \in DOMAIN sessions' /\ sessions'[s].id = sessions[s].id) =>
                \A i \in DOMAIN sessions[s].messages :
                   KeptIn(sessions[s].messages[i], sessions'[s].messages)
       /\ (conversationId # NoId /\ conversationId' = conversationId) =>
             \A i \in DOMAIN messages : KeptIn(messages[i], messages')]_vars

\* C18: a change of the provider or of the model in the middle of a
\* conversation leaves the conversation's id and its list of messages as they
\* are, in the view and in the store, and the send issued next names that same
\* conversation and extends that same list.
C18_SwitchKeepsConversation ==
    [][/\ ((\E p \in Range(ProviderKeys) : ProviderChange(p))
           \/ (\E m \in Range(availableModels) : ModelChange(m))) =>
             /\ conversationId' = conversationId
             /\ messages' = messages
       /\ (\E p \in SwitchProviders, m \in SwitchModels : SwitchProvider(p, m)) =>
             /\ currentSessionId' = currentSessionId
             /\ currentMessages' = currentMessages
             /\ [s \in DOMAIN sessions' |-> sessions'[s].messages]
                   = [s \in DOMAIN sessions |-> sessions[s].messages]
       /\ \A text \in Texts : \A r \in reqs' \ reqs :
             (SendMessage(text) /\ r.kind = "send") =>
                /\ r.conv = conversationId
                /\ Len(messages') = Len(messages) + 1
                /\ SubSeq(messages', 1, Len(messages)) = messages
       /\ \A text \in Texts : \A r \in sreqs' \ sreqs :
             (StoreSendMessage(text) /\ r.kind = "send") =>
                /\ r.conv = currentSessionId
                /\ Len(currentMessages') = Len(currentMessages) + 1
                /\ SubSeq(currentMessages', 1, Len(currentMessages)) = currentMessages]_vars

\* In the view a send is in flight that was issued after the provider was
\* changed in the middle of a conversation: the conversation has its id, the
\* first turn was answered under another provider and is still in the list.
C18_Witness ==
    \E r \in reqs :
        /\ r.kind = "send"
        /\ conversationId # NoId
        /\ r.conv = conversationId
        /\ Len(messages) = 3
        /\ messages[2].role = "assistant"
        /\ messages[2].provider # r.provider

\* ---------------------------------------------------------------------------
\* C19: checkRateLimit(endpoint, limit, window) returns true exactly when
\* fewer than `limit` of the calls accepted before for that endpoint lie
\* within the last `window` of time, and a rejected call is not recorded.
AcceptedWithin(endpoint, window) ==
    { i \in DOMAIN accepted[endpoint] : accepted[endpoint][i] > now - window }

Recorded(limiters, endpoint) ==
    IF endpoint \in DOMAIN limiters THEN Len(limiters[endpoint]) ELSE 0

C20_LogoutClearsStorage ==
    authResult.call = "logout" =>
        \A k \in AuthKeys : localStorage[k] = NoItem

\* logout() has returned from a storage that held all three items.
C20_Witness ==
    /\ authResult.call = "logout"
    /\ \A k \in AuthKeys : authResult.before[k] # NoItem
    /\ \A k \in AuthKeys : localStorage[k] = NoItem

\* ---------------------------------------------------------------------------
\* C21: getCurrentUser() returns null whenever no access token is stored or
\* the stored token's exp lies in the past, and in the expired case the
\* stored tokens are cleared; isAuthenticated() is true exactly when
\* getCurrentUser() is not null.
Expired(storage, t) ==
    /\ storage[TOKEN_KEY].kind = "jwt"
    /\ storage[TOKEN_KEY].exp < t

C21_CurrentUser ==
    [][/\ GetCurrentUser =>
             /\ (localStorage[TOKEN_KEY] = NoItem \/ Expired(localStorage, now))
                   => authResult'.value = NoItem
             /\ Expired(localStorage, now)
                   => \A k \in AuthKeys : localStorage'[k] = NoItem
       /\ IsAuthenticated =>
             /\ authResult'.value \in {Bool(TRUE), Bool(FALSE)}
             /\ authResult'.value = Bool(TRUE)
                   <=> getCurrentUser(localStorage, now)[2] # NoItem]_vars

\* getCurrentUser() has returned null for an expired token whose refresh token
\* and user were stored, and the storage is cleared.
C21_Witness ==
    /\ authResult.call = "getCurrentUser"
    /\ Expired(authResult.before, now)
    /\ authResult.before[REFRESH_TOKEN_KEY] # NoItem
    /\ authResult.before[USER_KEY] # NoItem
    /\ authResult.value = NoItem
    /\ \A k \in AuthKeys : localStorage[k] = NoItem

\* ---------------------------------------------------------------------------
\* C22: whenever a response with status 401 is received through the shared
\* api client, the auth store is logged out (token and user cleared),
\* navigation to /login is triggered and the call rejects with the error; a
\* response with any other error status does not log the user out.
C22_LogoutOn401 ==
    [][\A r \in preqs, status \in ErrorStatuses :
          ApiError(r, status) =>
             /\ apiResult' = Settled(r.rid, "rejected", status, authToken)
             /\ status = 401 =>
                   /\ authToken' = Null
                   /\ authUser' = Null
                   /\ \A k \in DOMAIN appStorage : appStorage'[k] = Null
                   /\ route' = [to |-> "/login", path |-> "/login"]
             /\ status # 401 =>
                   UNCHANGED <<authUser, authToken, authRefreshToken,
                               appStorage, axiosDefaults, route>>]_vars

\* A call through the api client was rejected with 401 while the store held
\* a token, and the store is logged out on /login.
C22_Witness ==
    /\ apiResult.outcome = "rejected"
    /\ apiResult.status = 401
    /\ authToken = Null
    /\ authUser = Null
    /\ apiResult.held \in Tokens
    /\ route = [to |-> "/login", path |-> "/login"]

C30_GuardedRoutes ==
    [][\A to \in Paths :
          Navigate(to) =>
             /\ route'.to = to
             /\ route'.path \in Paths
             /\ (route'.path \in RequiresAuth) => Truthy(authToken)
             /\ (to \in RequiresAuth /\ ~Truthy(authToken))
                   => route'.path = "/login"
             /\ (to = "/login" /\ Truthy(authToken)) => route'.path = "/"
             /\ (to \in RequiresAuth /\ Truthy(authToken))
                   => route'.path = to
             /\ (to = "/login" /\ ~Truthy(authToken))
                   => route'.path = "/login"]_vars

\* A navigation to /config was sent to /login, the store holding no token.
C30_Witness ==
    /\ route = [to |-> "/config", path |-> "/login"]
    /\ authToken = Null
    /\ authUser = Null

\* ---------------------------------------------------------------------------
\* C23: the assistant reply (or error turn) of a sendMessage is appended to
\* the conversation to which that call appended its user message, even when
\* the user starts a new chat or switches, deletes or creates a session while
\* the request is in flight.
ViewReplyPushed(r) ==
    \/ SendPostOk(r) /\ messages' # messages
    \/ SendFetchDone(r)
    \/ SendFail(r)

C23_ViewReplyInOwnConversation ==
    \A r \in reqs :
        ViewReplyPushed(r) =>
            /\ \E i \in DOMAIN messages :
                  /\ messages[i].role = "user"
                  /\ messages[i].content = r.text
            /\ r.conv # NoId => conversationId' = r.conv

SessionMessages(all, id) ==
    LET i == FindIndex(all, LAMBDA x : x.id = id)
    IN  IF i = 0 THEN <<>> ELSE all[i].messages

C23_StoreReplyInOwnSession ==
    \A r \in sreqs :
        (StoreSendOk(r) \/ StoreSendFail(r)) =>
            /\ \E x \in Range(sessions') : x.id = r.conv
            /\ Len(SessionMessages(sessions', r.conv))
                  = Len(SessionMessages(sessions, r.conv)) + 1
            /\ Last(SessionMessages(sessions', r.conv)).role = "assistant"

C23_ReplyToOwnConversation ==
    [][C23_ViewReplyInOwnConversation /\ C23_StoreReplyInOwnSession]_vars

\* ---------------------------------------------------------------------------
\* C28: when regenerateLastResponse() completes on a session with a user
\* message, the session's messages are the previous messages up to and
\* including the last user message, followed by exactly one new assistant
\* message: the last user message occurs once.
C28_RegenerateReplacesReply ==
    [][\A r \in sreqs :
          (StoreSendOk(r) /\ r.mid # NoId) =>
             LET msgs == SessionMessages(sessions', r.conv)
             IN  /\ Len(msgs) = r.lenBefore + 1
                 /\ msgs[r.lenBefore].id = r.mid
                 /\ msgs[r.lenBefore].role = "user"
                 /\ Last(msgs).role = "assistant"]_vars

\* ---------------------------------------------------------------------------
\* C29: once initialize() has completed, currentSessionId refers to a session
\* that is in sessions, after any sequence of createNewSession,
\* switchSession, deleteSession and importSessions; switchSession with an
\* unknown id changes nothing.
C29_CurrentSessionExists ==
    [][/\ isInitialized' => CurrentIndex' # 0
       /\ SwitchSession(UnknownSessionId) => UNCHANGED storeVars]_vars

\* The store is initialized, the session it created has been deleted while it
\* was current, and the imported session that remained is the current one.
C29_Witness ==
    /\ isInitialized
    /\ sessions = <<[id |-> 90, messages |-> <<>>, provider |-> "",
                     model |-> ""]>>
    /\ currentSessionId = 90
    /\ now = 2


\* C24: a request answered with 401 is sent again at most once after a token
\* refresh, through AuthService's client and through JugglerAPI's client
\* alike: no request is sent a third time.
C24_ResentAtMostOnce ==
    \A r \in areqs : r.sends <= 2


\* C25: when the refresh endpoint answers the request of refreshToken() with
\* 401, the call is rejected and the stored tokens are cleared, and the
\* interceptor starts no further refreshToken() for it: no request is added.
C25_RefreshRejectedOn401 ==
    [][\A r \in areqs :
          (r.kind = "refresh" /\ Unauthorized(r)) =>
              /\ areqs' \subseteq areqs \ {r}
              /\ localStorage'[TOKEN_KEY] = NoItem
              /\ localStorage'[REFRESH_TOKEN_KEY] = NoItem]_vars


\* C26: a refreshToken() request that completes after logout() writes no
\* token back and arms no refresh timer: when logout() was the last call to
\* return, the response of a refresh request leaves both tokens absent and the
\* timer unset.
C26_NoTokensAfterLogout ==
    [][\A r \in areqs :
          (authResult.call = "logout" /\ RefreshOk(r)) =>
              /\ localStorage'[TOKEN_KEY] = NoItem
              /\ localStorage'[REFRESH_TOKEN_KEY] = NoItem
              /\ refreshTokenTimeout' = NoTimer]_vars

====
